---- MODULE Spec2Model ----
(***************************************************************************)
(* Model of the inspection rule-and-notification engine of the turbine     *)
(* inspection backend: the inspection-date overlap guard, the severity     *)
(* rule applied to findings, repair-plan generation and the notification   *)
(* of observers.                                                           *)
(*                                                                         *)
(* Time is counted in whole hours since an epoch (an "instant"); the UTC   *)
(* calendar date of an instant t is t \div 24.  The process's local time   *)
(* zone is a fixed offset tz (hours east of UTC) that the environment      *)
(* chooses when the process starts.                                        *)
(***************************************************************************)
EXTENDS Integers, Sequences, FiniteSets, TLC

VARIABLES
    tz,            \* local time zone offset of the server process, in hours
    inspections,   \* the Inspection table: a set of rows
    nextInspId,    \* id generator of the Inspection table
    req,           \* in-flight inspection requests: one record per request slot
    rule,          \* one application of the severity rule: its inputs and result
    findings,      \* the Finding table: a set of rows
    nextFindingId, \* id generator of the Finding table
    last,          \* the response to the last finding request
    plans,         \* the RepairPlan table: a set of rows
    nextPlanId,    \* id generator of the RepairPlan table
    clock,         \* the time of the store: it advances with every plan write
    gen,           \* in-flight generate requests: one record per request slot
    sseClients,    \* services/sse.ts: the set of event-stream handles
    conns,         \* the event-stream connections: one record per handle
    ioServer,      \* services/sse.ts: the socket server, up or failing
    sent,          \* what the calls of notifyPlan wrote, one record per call
    turbines,      \* the Turbine table: a set of rows
    client,        \* the browser client: services/realtime.ts and its streams
    stalled,       \* the handles whose peer has stopped reading its stream
    auth           \* the last request the role middleware decided on

findingVars == <<findings, nextFindingId, last>>
planVars == <<plans, nextPlanId, clock, gen>>
notifyVars == <<sseClients, conns, ioServer, sent>>
overlapVars == <<tz, inspections, nextInspId, req>>
siteVars == <<turbines, client, stalled>>
notOverlapVars == <<rule, findingVars, planVars, notifyVars, siteVars>>
notRuleVars == <<overlapVars, findingVars, planVars, notifyVars, siteVars>>
notFindingVars == <<overlapVars, rule, planVars, notifyVars, siteVars>>
notPlanVars == <<overlapVars, rule, findingVars, notifyVars, siteVars>>
notNotifyVars == <<overlapVars, rule, findingVars, planVars, siteVars>>
notPlanNotifyVars == <<overlapVars, rule, findingVars, siteVars>>
vars == <<tz, inspections, nextInspId, req, rule, findings, nextFindingId,
          last, plans, nextPlanId, clock, gen, sseClients, conns, ioServer,
          sent, turbines, client, stalled, auth>>

----------------------------------------------------------------------------
(* Bounds of the model *)

MaxTurbines == 2
MaxDay == 2
MaxReqs == 3

Turbines == 1..MaxTurbines
ReqIds == 1..MaxReqs

\* The local time zones the process may run in (hours east of UTC).
TzOffsets == {-5, 0, 5}

\* Times of day (UTC hour) of the timestamps clients send.
TimesOfDay == {2, 23}

\* Timestamps clients send: instants on the calendar days 1..MaxDay (UTC).
Instants == {24 * d + h : d \in 1..MaxDay, h \in TimesOfDay}

NoDate == -1
NoId == 0

\* A request slot that has received no request.
IdleReq ==
    [pc |-> "idle", ep |-> "none", turbineId |-> 0, date |-> NoDate,
     id |-> NoId, dateObj |-> NoDate, outcome |-> "none", dbError |-> "none"]

----------------------------------------------------------------------------
(* The severity rule.  Notes are sequences of characters; Null is a missing *)
(* (null or undefined) notes value.                                         *)

MaxSeverity == 6
CrackMinSeverity == 4

Categories == {"BLADE_DAMAGE", "LIGHTNING", "EROSION", "UNKNOWN"}
Severities == 1..MaxSeverity

Null == <<"null">>

\* String.prototype.toLowerCase, on the letters the notes are written in.
LowerChar(c) ==
    CASE c = "C" -> "c"
      [] c = "R" -> "r"
      [] c = "A" -> "a"
      [] c = "K" -> "k"
      [] OTHER -> c

toLowerCase(s) == [i \in 1..Len(s) |-> LowerChar(s[i])]

\* String.prototype.includes
includes(s, sub) ==
    \E i \in 1..(Len(s) - Len(sub) + 1) : SubSeq(s, i, i + Len(sub) - 1) = sub

\* (notes || '')
orEmpty(notes) == IF notes = Null THEN <<>> ELSE notes

crack == <<"c", "r", "a", "c", "k">>

\* Math.max(a, b)
MathMax(a, b) == IF a >= b THEN a ELSE b

\* Notes that clients send.
RuleNotes ==
    { Null,
      <<>>,
      <<"c", "r", "a", "c", "k">>,
      <<"C", "R", "A", "C", "K">>,
      <<"C", "r", "a", "c", "k", "s">>,
      <<"v", "i", "s", " ", "c", "r", "a", "c", "k">>,
      <<"c", "r", "a", "C", "k", "e", "d">>,
      <<"c", "r", "a", "k">>,
      <<"c", "r", "a", " ", "c", "k">>,
      <<"r", "a", "c", "k">>,
      <<"c", "r", "c", "r", "a", "c">>,
      <<"n", "o", " ", "i", "s", "s", "u", "e">> }

RuleSites == {"PostInspectionFindings", "PostFindings", "PutFinding",
              "createFinding", "updateFinding", "Generate",
              "applySeverityRules"}

\* A site that has not applied the rule.
NotApplied == [applied |-> FALSE, adjustedSeverity |-> 0, hasFlag |-> FALSE,
               severityAdjusted |-> FALSE]

NoRule == [category |-> "UNKNOWN", severity |-> 0, notes |-> Null,
           at |-> [s \in RuleSites |-> NotApplied]]

\* The rule with the flag set whenever the rule matches.
PostInspectionFindingsRuleFlagOnMatch(category, severity, notes) ==
    IF category = "BLADE_DAMAGE" /\ includes(toLowerCase(orEmpty(notes)), crack)
    THEN <<MathMax(CrackMinSeverity, severity), TRUE>>
    ELSE <<severity, FALSE>>

\* findings route, POST /inspections/:inspectionId/findings: lines 16-31.
\* The result is <<adjustedSeverity, severityAdjusted>>.
PostInspectionFindingsRule(category, severity, notes) ==
    IF category = "BLADE_DAMAGE" /\ includes(toLowerCase(orEmpty(notes)), crack)
    THEN LET adjustedSeverity == MathMax(CrackMinSeverity, severity)
         IN  <<adjustedSeverity, adjustedSeverity # severity>>
    ELSE <<severity, FALSE>>

\* findings route, POST /: lines 105-120.
PostFindingsRule(category, severity, notes) ==
    IF category = "BLADE_DAMAGE" /\ includes(toLowerCase(orEmpty(notes)), crack)
    THEN LET adjustedSeverity == MathMax(CrackMinSeverity, severity)
         IN  <<adjustedSeverity, adjustedSeverity # severity>>
    ELSE <<severity, FALSE>>

\* findings route, PUT /:id: lines 157-176, applied to the final category,
\* severity and notes.
PutFindingRule(finalCategory, finalSeverity, finalNotes) ==
    IF finalCategory = "BLADE_DAMAGE"
       /\ includes(toLowerCase(orEmpty(finalNotes)), crack)
    THEN LET adjustedSeverity == MathMax(CrackMinSeverity, finalSeverity)
         IN  <<adjustedSeverity, adjustedSeverity # finalSeverity>>
    ELSE <<finalSeverity, FALSE>>

\* GraphQL Mutation.createFinding
createFindingRule(category, severity, notes) ==
    IF category = "BLADE_DAMAGE" /\ includes(toLowerCase(orEmpty(notes)), crack)
    THEN LET adjustedSeverity == MathMax(CrackMinSeverity, severity)
         IN  <<adjustedSeverity, adjustedSeverity # severity>>
    ELSE <<severity, FALSE>>

\* GraphQL Mutation.updateFinding: computes no severityAdjusted flag.
updateFindingRule(finalCategory, finalSeverity, finalNotes) ==
    IF finalCategory = "BLADE_DAMAGE"
       /\ includes(toLowerCase(orEmpty(finalNotes)), crack)
    THEN MathMax(CrackMinSeverity, finalSeverity)
    ELSE finalSeverity

\* The generation reading the stored severity as it is.
GenerateRuleStored(category, severity, notes) == severity

\* The generation raising a matching finding by one severity.
GenerateRuleRaise(category, severity, notes) ==
    IF category = "BLADE_DAMAGE" /\ includes(toLowerCase(orEmpty(notes)), crack)
    THEN MathMax(CrackMinSeverity, severity + 1)
    ELSE severity

\* repair-plans route, POST /:inspectionId: the map over inspection.findings,
\* for one finding f.
GenerateRule(category, severity, notes) ==
    IF category = "BLADE_DAMAGE" /\ includes(toLowerCase(orEmpty(notes)), crack)
    THEN MathMax(CrackMinSeverity, severity)
    ELSE severity

\* The rule matching "crack" in lower case only.
applySeverityRuleCaseSensitive(category, severity, notes) ==
    IF category = "BLADE_DAMAGE" /\ includes(orEmpty(notes), crack)
    THEN MathMax(CrackMinSeverity, severity)
    ELSE severity

\* GraphQL resolvers, applySeverityRules: for one finding f.
applySeverityRule(category, severity, notes) ==
    LET hasCrack == includes(toLowerCase(orEmpty(notes)), crack)
    IN  IF category = "BLADE_DAMAGE" /\ hasCrack
        THEN MathMax(CrackMinSeverity, severity)
        ELSE severity

----------------------------------------------------------------------------
(* utils/date.ts *)

\* UTC calendar date of an instant.
UtcDay(t) == t \div 24

\* Date.prototype.setHours(0,0,0,0): midnight of the LOCAL calendar day of t,
\* as an instant.
setHoursZero(t) == ((t + tz) \div 24) * 24 - tz

normalizeToDateOnly(date) == setHoursZero(date)

----------------------------------------------------------------------------
(* The Inspection table and its unique index *)

\* prisma.inspection.findFirst({ where: { turbineId, date } })
findFirst(turbineId, date) ==
    {i \in inspections : i.turbineId = turbineId /\ i.date = date}

\* prisma.inspection.findFirst({ where: { turbineId, date, id: { not: id } } })
findFirstNot(turbineId, date, id) ==
    {i \in inspections : i.turbineId = turbineId /\ i.date = date /\ i.id # id}

\* prisma.inspection.findUnique({ where: { id } })
findUnique(id) == {i \in inspections : i.id = id}

\* The store without its unique index: no write is ever refused.
UniqueViolationNoIndex(turbineId, date, id) == FALSE

\* CREATE UNIQUE INDEX "Inspection_turbineId_date_key": a row (turbineId, date)
\* written as row id is refused when another row holds the same pair.
UniqueViolation(turbineId, date, id) ==
    \E i \in inspections : i.turbineId = turbineId /\ i.date = date /\ i.id # id

----------------------------------------------------------------------------
(* Inspection requests.  A handler runs from one await to the next as one   *)
(* step; the store serves each query atomically.                            *)

CreateEndpoints == {"restNested", "restCreate", "restTurbines", "gqlCreate"}
UpdateEndpoints == {"restUpdate", "gqlUpdate"}

Finish(r, fields, outcome, dbError) ==
    req' = [req EXCEPT ![r] =
                [fields EXCEPT !.pc = "done", !.outcome = outcome,
                               !.dbError = dbError]]

\* Request slots are interchangeable, so they are taken in order: slot r
\* receives a request once every lower slot has received one.
Arrives(r) ==
    /\ req[r].pc = "idle"
    /\ \A q \in ReqIds : q < r => req[q].pc # "idle"

\* The handler up to and including its findFirst pre-check.  hasBodyCheck says
\* whether the handler answers 400 for a missing date.
CreateCheck(r, ep, hasBodyCheck) ==
    /\ Arrives(r)
    /\ \E turbineId \in Turbines,
          date \in Instants \cup (IF hasBodyCheck THEN {NoDate} ELSE {}) :
          LET args == [IdleReq EXCEPT !.ep = ep, !.turbineId = turbineId,
                                      !.date = date]
          IN  IF date = NoDate
              THEN Finish(r, [IdleReq EXCEPT !.ep = ep], "badRequest", "none")
              ELSE LET dateObj == normalizeToDateOnly(date)
                       checked == [args EXCEPT !.dateObj = dateObj]
                   IN  IF findFirst(turbineId, dateObj) # {}
                       THEN Finish(r, checked, "conflict", "none")
                       ELSE req' = [req EXCEPT ![r] =
                                       [checked EXCEPT !.pc = "insert"]]
    /\ UNCHANGED <<tz, inspections, nextInspId, notOverlapVars>>

\* prisma.inspection.create and what the handler does with its result.
\* onP2002 is the outcome the handler's catch blocks give a uniqueness
\* violation thrown by the store; a turbine that is gone is refused by
\* Inspection_turbineId_fkey, which every handler answers as an error.
CreateInsert(r, ep, onP2002) ==
    /\ req[r].pc = "insert"
    /\ req[r].ep = ep
    /\ IF UniqueViolation(req[r].turbineId, req[r].dateObj, NoId)
       THEN /\ Finish(r, req[r], onP2002, "P2002")
            /\ UNCHANGED <<inspections, nextInspId>>
       ELSE IF \A t \in turbines.rows : t.id # req[r].turbineId
       THEN /\ Finish(r, req[r], "error", "P2003")
            /\ UNCHANGED <<inspections, nextInspId>>
       ELSE /\ inspections' = inspections \cup
                   {[id |-> nextInspId, turbineId |-> req[r].turbineId,
                     date |-> req[r].dateObj]}
            /\ nextInspId' = nextInspId + 1
            /\ Finish(r, [req[r] EXCEPT !.id = nextInspId], "created", "none")
    /\ UNCHANGED <<tz, notOverlapVars>>

\* routes/inspections.ts POST /turbines/:turbineId/inspections: the inner
\* catch answers 409 for P2002.
PostTurbineInspectionsCatch == "conflict"

PostTurbineInspections(r) ==
    \/ CreateCheck(r, "restNested", TRUE)
    \/ CreateInsert(r, "restNested", PostTurbineInspectionsCatch)

\* routes/inspections.ts POST /: create is not wrapped; the outer catch
\* answers 500 with the store's message.
PostInspectionsCatch == "error"

PostInspections(r) ==
    \/ CreateCheck(r, "restCreate", TRUE)
    \/ CreateInsert(r, "restCreate", PostInspectionsCatch)

\* routes/turbines.ts POST /:turbineId/inspections
TurbinesPostInspectionsCatch == "conflict"

TurbinesPostInspections(r) ==
    \/ CreateCheck(r, "restTurbines", TRUE)
    \/ CreateInsert(r, "restTurbines", TurbinesPostInspectionsCatch)

\* GraphQL Mutation.createInspection: the pre-check and the catch both throw
\* Error('Overlapping inspection already exists ...').
createInspectionCatch == "conflict"

createInspection(r) ==
    \/ CreateCheck(r, "gqlCreate", FALSE)
    \/ CreateInsert(r, "gqlCreate", createInspectionCatch)

\* The update handler up to and including findUnique: 404 when the row is
\* missing; dateObj is the normalized new date, or the row's own date when the
\* body carries none.  The id is that of a row ever inserted, or one (the
\* next to be generated) that no row has.
UpdateFind(r, ep) ==
    /\ Arrives(r)
    /\ \E id \in 1..nextInspId, date \in Instants \cup {NoDate} :
          LET args == [IdleReq EXCEPT !.ep = ep, !.id = id, !.date = date]
              found == findUnique(id)
          IN  IF found = {}
              THEN Finish(r, [IdleReq EXCEPT !.ep = ep], "notFound", "none")
              ELSE LET inspection == CHOOSE i \in found : TRUE
                       dateObj == IF date # NoDate
                                  THEN normalizeToDateOnly(date)
                                  ELSE inspection.date
                   IN  req' = [req EXCEPT ![r] =
                                 [args EXCEPT
                                    !.turbineId = inspection.turbineId,
                                    !.dateObj = dateObj,
                                    !.pc = IF date # NoDate THEN "check"
                                           ELSE "update"]]
    /\ UNCHANGED <<tz, inspections, nextInspId, notOverlapVars>>

\* if (date) { findFirst({ turbineId, date: dateObj, id: { not: id } }) }
UpdateCheck(r, ep) ==
    /\ req[r].pc = "check"
    /\ req[r].ep = ep
    /\ IF findFirstNot(req[r].turbineId, req[r].dateObj, req[r].id) # {}
       THEN Finish(r, req[r], "conflict", "none")
       ELSE req' = [req EXCEPT ![r].pc = "update"]
    /\ UNCHANGED <<tz, inspections, nextInspId, notOverlapVars>>

\* prisma.inspection.update({ where: { id }, data: { ...(date && { date }) } })
\* and what the handler does with its result.
UpdateWrite(r, ep, onP2002) ==
    /\ req[r].pc = "update"
    /\ req[r].ep = ep
    /\ IF findUnique(req[r].id) = {}
       THEN /\ Finish(r, req[r], "error", "P2025")
            /\ UNCHANGED inspections
       ELSE IF req[r].date # NoDate
               /\ UniqueViolation(req[r].turbineId, req[r].dateObj, req[r].id)
       THEN /\ Finish(r, req[r], onP2002, "P2002")
            /\ UNCHANGED inspections
       ELSE /\ inspections' =
                  {IF i.id = req[r].id /\ req[r].date # NoDate
                   THEN [i EXCEPT !.date = req[r].dateObj]
                   ELSE i : i \in inspections}
            /\ Finish(r, req[r], "ok", "none")
    /\ UNCHANGED <<tz, nextInspId, notOverlapVars>>

\* routes/inspections.ts PUT /:id: the inner catch answers 409 for P2002.
PutInspectionCatch == "conflict"

PutInspection(r) ==
    \/ UpdateFind(r, "restUpdate")
    \/ UpdateCheck(r, "restUpdate")
    \/ UpdateWrite(r, "restUpdate", PutInspectionCatch)

\* GraphQL Mutation.updateInspection: update is returned unwrapped, so the
\* store's error reaches the client as it is.
updateInspectionCatch == "error"

updateInspection(r) ==
    \/ UpdateFind(r, "gqlUpdate")
    \/ UpdateCheck(r, "gqlUpdate")
    \/ UpdateWrite(r, "gqlUpdate", updateInspectionCatch)

----------------------------------------------------------------------------
(* The Finding table and the finding routes.  A finding request runs to    *)
(* completion as one step.                                                  *)

MaxFindings == 2

\* Values clients send in finding requests.
FindingCategories == {"BLADE_DAMAGE", "EROSION"}
FindingSeverities == {2, 5}
FindingCosts == {0, 5}
FindingNotes == {Null, <<"C", "r", "a", "c", "k">>, <<"o", "k">>}

\* Body fields that are undefined.
NoNumber == -1
NoCategory == ""
Undefined == <<"undefined">>

NoResponse ==
    [op |-> "none", status |-> "none", id |-> NoId, raw |-> NoNumber,
     severity |-> NoNumber, hasFlag |-> FALSE, severityAdjusted |-> FALSE,
     originalSeverity |-> NoNumber]

\* res.status(...).json({ error }) / a thrown error
RespondError(op, status) ==
    last' = [NoResponse EXCEPT !.op = op, !.status = status]

\* res.json({ ...finding, originalSeverity: severityAdjusted ? raw : undefined,
\*            severityAdjusted }): raw is the severity the rule was applied to.
RespondFlagged(op, status, finding, raw, severityAdjusted) ==
    last' = [op |-> op, status |-> status, id |-> finding.id, raw |-> raw,
             severity |-> finding.severity, hasFlag |-> TRUE,
             severityAdjusted |-> severityAdjusted,
             originalSeverity |-> IF severityAdjusted THEN raw ELSE NoNumber]

\* A GraphQL mutation returns the row only.
RespondRow(op, status, finding, raw) ==
    last' = [NoResponse EXCEPT !.op = op, !.status = status,
                               !.id = finding.id, !.raw = raw,
                               !.severity = finding.severity]

\* Finding_inspectionId_fkey
InspectionExists(inspectionId) == \E i \in inspections : i.id = inspectionId

\* prisma.finding.create
InsertFinding(inspectionId, category, severity, estimatedCost, notes) ==
    [id |-> nextFindingId, inspectionId |-> inspectionId,
     category |-> category, severity |-> severity,
     estimatedCost |-> estimatedCost, notes |-> notes]

\* The bodies clients send to a REST create: the severity may be missing.
CreateBodies ==
    [category : FindingCategories,
     severity : FindingSeverities \cup {NoNumber},
     estimatedCost : FindingCosts, notes : FindingNotes]

\* A REST create: 400 for a missing severity, then create and 201 with the
\* result of the route's copy of the rule.
RestCreateFinding(op, inspectionId, body, result) ==
    /\ Cardinality(findings) < MaxFindings
    /\ IF body.severity = NoNumber
       THEN /\ RespondError(op, "badRequest")
            /\ UNCHANGED <<findings, nextFindingId>>
       ELSE IF ~InspectionExists(inspectionId)
       THEN /\ RespondError(op, "error")
            /\ UNCHANGED <<findings, nextFindingId>>
       ELSE LET adjustedSeverity == result[1]
                severityAdjusted == result[2]
                finding == InsertFinding(inspectionId, body.category,
                                         adjustedSeverity, body.estimatedCost,
                                         body.notes)
            IN  /\ findings' = findings \cup {finding}
                /\ nextFindingId' = nextFindingId + 1
                /\ RespondFlagged(op, "created", finding, body.severity,
                                  severityAdjusted)
    /\ UNCHANGED notFindingVars

\* findings route, POST /inspections/:inspectionId/findings
PostInspectionFindings ==
    \E inspectionId \in 1..nextInspId, body \in CreateBodies :
        RestCreateFinding("PostInspectionFindings", inspectionId, body,
            PostInspectionFindingsRule(body.category, body.severity,
                                       body.notes))

\* findings route, POST /
PostFindings ==
    \E inspectionId \in 1..nextInspId, body \in CreateBodies :
        RestCreateFinding("PostFindings", inspectionId, body,
            PostFindingsRule(body.category, body.severity, body.notes))

\* GraphQL Mutation.createFinding
createFinding ==
    /\ Cardinality(findings) < MaxFindings
    /\ \E inspectionId \in 1..nextInspId, category \in FindingCategories,
          severity \in FindingSeverities, estimatedCost \in FindingCosts,
          notes \in FindingNotes :
          IF ~InspectionExists(inspectionId)
          THEN /\ RespondError("createFinding", "error")
               /\ UNCHANGED <<findings, nextFindingId>>
          ELSE LET adjustedSeverity ==
                       createFindingRule(category, severity, notes)[1]
                   finding == InsertFinding(inspectionId, category,
                                            adjustedSeverity, estimatedCost,
                                            notes)
               IN  /\ findings' = findings \cup {finding}
                   /\ nextFindingId' = nextFindingId + 1
                   /\ RespondRow("createFinding", "created", finding, severity)
    /\ UNCHANGED notFindingVars

\* prisma.finding.update({ data: { ...(category && { category }),
\*   ...(severity !== undefined && { severity: adjustedSeverity }),
\*   ...(estimatedCost !== undefined && { estimatedCost }),
\*   ...(notes !== undefined && { notes }) } })
UpdateFindingRow(finding, body, adjustedSeverity) ==
    [finding EXCEPT
        !.category = IF body.category # NoCategory THEN body.category ELSE @,
        !.severity = IF body.severity # NoNumber THEN adjustedSeverity ELSE @,
        !.estimatedCost = IF body.estimatedCost # NoNumber
                          THEN body.estimatedCost ELSE @,
        !.notes = IF body.notes # Undefined THEN body.notes ELSE @]

\* The bodies clients send to an update: every field may be missing.
UpdateBodies ==
    [category : FindingCategories \cup {NoCategory},
     severity : FindingSeverities \cup {NoNumber},
     estimatedCost : FindingCosts \cup {NoNumber},
     notes : FindingNotes \cup {Undefined}]

\* findings route, PUT /:id
PutFinding ==
    /\ \E id \in 1..nextFindingId :
          LET found == {f \in findings : f.id = id}
          IN  IF found = {}
              THEN /\ RespondError("PutFinding", "notFound")
                   /\ UNCHANGED findings
              ELSE \E body \in UpdateBodies :
                   LET finding == CHOOSE f \in found : TRUE
                       finalCategory == IF body.category # NoCategory
                                        THEN body.category
                                        ELSE finding.category
                       finalSeverity == IF body.severity # NoNumber
                                        THEN body.severity
                                        ELSE finding.severity
                       finalNotes == IF body.notes # Undefined
                                     THEN body.notes
                                     ELSE finding.notes
                       result == PutFindingRule(finalCategory, finalSeverity,
                                                finalNotes)
                       updated == UpdateFindingRow(finding, body, result[1])
                   IN  /\ findings' = (findings \ {finding}) \cup {updated}
                       /\ RespondFlagged("PutFinding", "ok", updated,
                                         finalSeverity, result[2])
    /\ UNCHANGED <<nextFindingId, notFindingVars>>

\* GraphQL Mutation.updateFinding
updateFinding ==
    /\ \E id \in 1..nextFindingId :
          LET found == {f \in findings : f.id = id}
          IN  IF found = {}
              THEN /\ RespondError("updateFinding", "notFound")
                   /\ UNCHANGED findings
              ELSE \E body \in UpdateBodies :
                   LET finding == CHOOSE f \in found : TRUE
                       finalCategory == IF body.category # NoCategory
                                        THEN body.category
                                        ELSE finding.category
                       finalSeverity == IF body.severity # NoNumber
                                        THEN body.severity
                                        ELSE finding.severity
                       finalNotes == IF body.notes # Undefined
                                     THEN body.notes
                                     ELSE finding.notes
                       adjustedSeverity ==
                           updateFindingRule(finalCategory, finalSeverity,
                                             finalNotes)
                       updated == UpdateFindingRow(finding, body,
                                                   adjustedSeverity)
                   IN  /\ findings' = (findings \ {finding}) \cup {updated}
                       /\ RespondRow("updateFinding", "ok", updated,
                                     finalSeverity)
    /\ UNCHANGED <<nextFindingId, notFindingVars>>

----------------------------------------------------------------------------
(* The notification broadcaster: services/sse.ts and the two event-stream  *)
(* endpoints of index.ts.  A handle is the response object of one          *)
(* connection; it is used for one connection only.                         *)

MaxObservers == 2
ObsIds == 1..MaxObservers

SseEndpoints == {"sseRepairplans", "apiEvents"}

\* pings counts the ping frames written to the handle.
NoConn == [state |-> "none", endpoint |-> "none", pings |-> 0]

\* Handle o is taken only after every lower handle.
ObsArrives(o) ==
    /\ conns[o].state = "none"
    /\ \A n \in ObsIds : n < o => conns[n].state # "none"

\* The body shared by GET /sse/repairplans and GET /api/events: the ping is
\* written, the handle is added, the close listener is registered.  A ping
\* write that throws leaves the handler before the add.
SseConnect(o, endpoint) ==
    /\ ObsArrives(o)
    /\ \E pingThrows \in BOOLEAN :
          IF pingThrows
          THEN /\ conns' = [conns EXCEPT ![o] =
                              [state |-> "aborted", endpoint |-> endpoint,
                               pings |-> 0]]
               /\ UNCHANGED sseClients
          ELSE /\ conns' = [conns EXCEPT ![o] =
                              [state |-> "open", endpoint |-> endpoint,
                               pings |-> 1]]
               /\ sseClients' = sseClients \cup {o}
    /\ UNCHANGED <<ioServer, sent, notNotifyVars>>

\* index.ts, app.get('/sse/repairplans')
GetSseRepairplans(o) == SseConnect(o, "sseRepairplans")

\* index.ts, app.get('/api/events')
GetApiEvents(o) == SseConnect(o, "apiEvents")

\* The close listener leaving the handle in the set.
ReqCloseKeepsHandle(o) ==
    /\ conns[o].state = "open"
    /\ conns' = [conns EXCEPT ![o].state = "closed"]
    /\ UNCHANGED <<sseClients, ioServer, sent, notNotifyVars>>

\* req.on('close', () => getSseClients().delete(res))
ReqClose(o) ==
    /\ conns[o].state = "open"
    /\ conns' = [conns EXCEPT ![o].state = "closed"]
    /\ sseClients' = sseClients \ {o}
    /\ UNCHANGED <<ioServer, sent, notNotifyVars>>

\* The peer of an open handle stops reading: from then on a write to the
\* handle returns at once with the frame kept in the response's buffer.
ObsStalls(o) ==
    /\ conns[o].state = "open"
    /\ o \in sseClients
    /\ o \notin stalled
    /\ stalled' = stalled \cup {o}
    /\ UNCHANGED <<overlapVars, rule, findingVars, planVars, notifyVars,
                   turbines, client>>

\* Date.prototype.toISOString, and a Date inside JSON.stringify
toISOString(t) == <<"iso", t>>

\* The planData announcing every plan as HIGH.
planDataOfHigh(plan) ==
    [id |-> plan.id, inspectionId |-> plan.inspectionId,
     priority |-> "HIGH",
     totalEstimatedCost |-> plan.totalEstimatedCost,
     createdAt |-> plan.createdAt]

\* The planData naming the plan after the one the upsert returned.
planDataOfNextId(plan) ==
    [id |-> plan.id + 1, inspectionId |-> plan.inspectionId,
     priority |-> plan.priority,
     totalEstimatedCost |-> plan.totalEstimatedCost,
     createdAt |-> plan.createdAt]

\* The planData object the generating handlers pass to notifyPlan.
planDataOf(plan) ==
    [id |-> plan.id, inspectionId |-> plan.inspectionId,
     priority |-> plan.priority,
     totalEstimatedCost |-> plan.totalEstimatedCost,
     createdAt |-> plan.createdAt]

\* The text without the plan's creation time.
JSONstringifyNoCreatedAt(inspectionId, planData, at) ==
    << <<"type", "repairplan:created">>,
       <<"inspectionId", inspectionId>>,
       <<"plan", << <<"id", planData.id>>,
                    <<"inspectionId", planData.inspectionId>>,
                    <<"priority", planData.priority>>,
                    <<"totalEstimatedCost", planData.totalEstimatedCost>>,
                    <<"createdAt", toISOString(NoDate)>> >> >>,
       <<"at", at>> >>

\* JSON.stringify({ type, inspectionId, plan: planData, at }): the text as
\* its sequence of members, in the order written.
JSONstringify(inspectionId, planData, at) ==
    << <<"type", "repairplan:created">>,
       <<"inspectionId", inspectionId>>,
       <<"plan", << <<"id", planData.id>>,
                    <<"inspectionId", planData.inspectionId>>,
                    <<"priority", planData.priority>>,
                    <<"totalEstimatedCost", planData.totalEstimatedCost>>,
                    <<"createdAt", toISOString(planData.createdAt)>> >> >>,
       <<"at", at>> >>

\* JSON.parse(message)
JSONparse(message) ==
    [type |-> message[1][2],
     inspectionId |-> message[2][2],
     plan |-> [id |-> message[3][2][1][2],
               inspectionId |-> message[3][2][2][2],
               priority |-> message[3][2][3][2],
               totalEstimatedCost |-> message[3][2][4][2],
               createdAt |-> message[3][2][5][2]],
     at |-> message[4][2]]

\* The socket server starts to fail: from now on its emit throws.
EmitBreaks ==
    /\ ioServer = "up"
    /\ ioServer' = "failing"
    /\ UNCHANGED <<sseClients, conns, sent, notNotifyVars>>

\* ioServer.emit throws.
emitThrows == ioServer = "failing"

\* [[SetData]] of the set: its entries in the order they were added, which
\* is the order of the handles.
RECURSIVE SetData(_)
SetData(set) ==
    IF set = {} THEN <<>>
    ELSE LET last_ == CHOOSE x \in set : \A y \in set : y <= x
         IN  Append(SetData(set \ {last_}), last_)

\* The entries of the list that are not empty.
Entries(data) == {data[i] : i \in {j \in 1..Len(data) : data[j] # NoId}}

\* The loop over a list that a delete shortens: the entry after a deleted
\* one moves into its place and is passed over.
RECURSIVE forOfSplice(_, _, _, _)
forOfSplice(data, i, failed, writes) ==
    IF i > Len(data) THEN [data |-> data, writes |-> writes]
    ELSE IF data[i] \in failed
    THEN forOfSplice(SubSeq(data, 1, i - 1) \o SubSeq(data, i + 1, Len(data)),
                     i + 1, failed, writes)
    ELSE forOfSplice(data, i + 1, failed, Append(writes, data[i]))

\* for (const client of sseClients) { try { client.write(...) } catch {
\* sseClients.delete(client) } }: the set's iterator walks the list by
\* index, and a delete empties the entry where it is.  failed are the
\* clients whose write throws; writes are the writes that returned, in
\* order.
RECURSIVE forOf(_, _, _, _)
forOf(data, i, failed, writes) ==
    IF i > Len(data) THEN [data |-> data, writes |-> writes]
    ELSE IF data[i] = NoId THEN forOf(data, i + 1, failed, writes)
    ELSE IF data[i] \in failed
    THEN forOf([data EXCEPT ![i] = NoId], i + 1, failed, writes)
    ELSE forOf(data, i + 1, failed, Append(writes, data[i]))

\* The loop over the clients left at the first write that throws: nothing
\* is written in a call in which a write fails.
notifyPlanLoopAborts(g, inspectionId, planData, failed) ==
    LET message == JSONstringify(inspectionId, planData, toISOString(clock))
    IN  /\ sseClients' = sseClients \ failed
        /\ sent' = Append(sent,
               [by |-> g,
                members |-> sseClients,
                failed |-> failed,
                written |-> IF failed = {} THEN sseClients ELSE {},
                writes |-> IF failed = {} THEN SetData(sseClients) ELSE <<>>,
                buffered |-> IF failed = {} THEN sseClients \cap stalled
                             ELSE {},
                frame |-> [event |-> "repairplan:created", data |-> message],
                emit |-> [returned |-> ~emitThrows,
                          event |-> "repairplan:created",
                          payload |-> JSONparse(message)]])

\* notifyPlan: failed are the clients whose write throws.  The record
\* appended to sent is what one call wrote: the frame to every client whose
\* write returned, then the emit.  buffered are the clients whose write
\* returned with the frame left in the response's buffer, the peer not
\* reading: write does not wait for the peer.
notifyPlan(g, inspectionId, planData, failed) ==
    LET message == JSONstringify(inspectionId, planData, toISOString(clock))
        loop == forOf(SetData(sseClients), 1, failed, <<>>)
    IN  /\ sseClients' = Entries(loop.data)
        /\ sent' = Append(sent,
               [by |-> g,
                members |-> sseClients,
                failed |-> failed,
                written |-> {loop.writes[i] : i \in 1..Len(loop.writes)},
                writes |-> loop.writes,
                buffered |-> Entries(loop.data) \cap stalled,
                frame |-> [event |-> "repairplan:created", data |-> message],
                emit |-> [returned |-> ~emitThrows,
                          event |-> "repairplan:created",
                          payload |-> JSONparse(message)]])

----------------------------------------------------------------------------
(* The RepairPlan table and plan generation.  A generation is four steps:  *)
(* the read of the inspection with its findings, the read and the write of *)
(* the upsert (an upsert that includes a relation is a read followed by an *)
(* insert or an update), and the notification with the response.           *)

MaxGens == 2
GenIds == 1..MaxGens

GenerateEndpoints == {"restGenerate", "gqlGenerate"}

NoPlan ==
    [id |-> NoId, inspectionId |-> NoId, priority |-> "none",
     totalEstimatedCost |-> 0, snapshotJson |-> {}, createdAt |-> NoDate,
     updatedAt |-> NoDate]

IdleGen ==
    [pc |-> "idle", ep |-> "none", inspectionId |-> NoId, findings |-> {},
     existing |-> NoId, outcome |-> "none", plan |-> NoPlan]

\* Slot g is taken only after every lower slot.
GenArrives(g) ==
    /\ gen[g].pc = "idle"
    /\ \A h \in GenIds : h < g => gen[h].pc # "idle"

\* The read going on to the upsert without looking at what it found.
GenerateLoadUnchecked(g, ep) ==
    /\ GenArrives(g)
    /\ \E inspectionId \in 1..nextInspId :
          gen' = [gen EXCEPT ![g] =
                     [IdleGen EXCEPT
                         !.pc = "upsert", !.ep = ep,
                         !.inspectionId = inspectionId,
                         !.findings = {f \in findings :
                                          f.inspectionId = inspectionId}]]
    /\ UNCHANGED <<plans, nextPlanId, clock, notPlanVars>>

\* The read refusing an inspection that has no findings.
GenerateLoadNeedsFindings(g, ep) ==
    /\ GenArrives(g)
    /\ \E inspectionId \in 1..nextInspId :
          IF \A f \in findings : f.inspectionId # inspectionId
          THEN gen' = [gen EXCEPT ![g] =
                          [IdleGen EXCEPT !.pc = "done", !.ep = ep,
                                          !.inspectionId = inspectionId,
                                          !.outcome = "notFound"]]
          ELSE gen' = [gen EXCEPT ![g] =
                          [IdleGen EXCEPT
                              !.pc = "upsert", !.ep = ep,
                              !.inspectionId = inspectionId,
                              !.findings = {f \in findings :
                                               f.inspectionId = inspectionId}]]
    /\ UNCHANGED <<plans, nextPlanId, clock, notPlanVars>>

\* prisma.inspection.findUnique({ include: { findings: true } })
GenerateLoad(g, ep) ==
    /\ GenArrives(g)
    /\ \E inspectionId \in 1..nextInspId :
          IF ~InspectionExists(inspectionId)
          THEN gen' = [gen EXCEPT ![g] =
                          [IdleGen EXCEPT !.pc = "done", !.ep = ep,
                                          !.inspectionId = inspectionId,
                                          !.outcome = "notFound"]]
          ELSE gen' = [gen EXCEPT ![g] =
                          [IdleGen EXCEPT
                              !.pc = "upsert", !.ep = ep,
                              !.inspectionId = inspectionId,
                              !.findings = {f \in findings :
                                               f.inspectionId = inspectionId}]]
    /\ UNCHANGED <<plans, nextPlanId, clock, notPlanVars>>

\* reduce((sum, f) => sum + (f.estimatedCost || 0), 0)
RECURSIVE reduceCost(_)
reduceCost(fs) ==
    IF fs = {} THEN 0
    ELSE LET f == CHOOSE x \in fs : TRUE
         IN  f.estimatedCost + reduceCost(fs \ {f})

\* Math.max(0, ...findings.map((f) => f.severity))
maxSeverityOf(fs) ==
    IF fs = {} THEN 0
    ELSE LET m == CHOOSE x \in {f.severity : f \in fs} :
                      \A f \in fs : f.severity <= x
         IN  MathMax(0, m)

\* maxSeverity >= 5 ? 'HIGH' : maxSeverity >= 3 ? 'MEDIUM' : 'LOW'
priorityOf(maxSeverity) ==
    IF maxSeverity >= 5 THEN "HIGH"
    ELSE IF maxSeverity >= 3 THEN "MEDIUM" ELSE "LOW"

\* prisma.repairPlan.upsert, its read: the id of the plan of the inspection.
upsertFind(inspectionId) ==
    LET existing == {p \in plans : p.inspectionId = inspectionId}
    IN  IF existing = {} THEN NoId ELSE (CHOOSE p \in existing : TRUE).id

\* RepairPlan_inspectionId_key
PlanUniqueViolation(inspectionId) ==
    \E p \in plans : p.inspectionId = inspectionId

\* The write always making a new row.
upsertNewRow(existing, inspectionId, priority, total, snapshot) ==
    [id |-> nextPlanId, inspectionId |-> inspectionId,
     priority |-> priority, totalEstimatedCost |-> total,
     snapshotJson |-> snapshot, createdAt |-> clock, updatedAt |-> clock]

\* The write landing in whatever plan row there is.
upsertAnyRow(existing, inspectionId, priority, total, snapshot) ==
    IF plans = {}
    THEN [id |-> nextPlanId, inspectionId |-> inspectionId,
          priority |-> priority, totalEstimatedCost |-> total,
          snapshotJson |-> snapshot, createdAt |-> clock,
          updatedAt |-> clock]
    ELSE [(CHOOSE p \in plans : TRUE) EXCEPT
             !.priority = priority, !.totalEstimatedCost = total,
             !.snapshotJson = snapshot, !.updatedAt = clock]

\* prisma.repairPlan.upsert, its write: the create data in a new row, or the
\* update data in the row read; createdAt defaults to now and updatedAt is
\* set to now.
upsert(existing, inspectionId, priority, total, snapshot) ==
    IF existing = NoId
    THEN [id |-> nextPlanId, inspectionId |-> inspectionId,
          priority |-> priority, totalEstimatedCost |-> total,
          snapshotJson |-> snapshot, createdAt |-> clock,
          updatedAt |-> clock]
    ELSE [(CHOOSE p \in plans : p.id = existing) EXCEPT
             !.priority = priority, !.totalEstimatedCost = total,
             !.snapshotJson = snapshot, !.updatedAt = clock]

\* The second step of a generation: the upsert's read.
GenerateUpsertFind(g, ep) ==
    /\ gen[g].pc = "upsert"
    /\ gen[g].ep = ep
    /\ gen' = [gen EXCEPT ![g].pc = "write",
                          ![g].existing = upsertFind(gen[g].inspectionId)]
    /\ UNCHANGED <<plans, nextPlanId, clock, notPlanVars>>

\* The third step: the upsert's write.  adjusted is the findings read in
\* the first step with the rule applied.  The insert of a second plan of
\* the inspection, the update of a plan that is gone and the insert for an
\* inspection that is gone fail; the handler's catch answers 500, the
\* resolver throws.
GenerateUpsertWrite(g, ep, adjusted) ==
    /\ gen[g].pc = "write"
    /\ gen[g].ep = ep
    /\ LET total == reduceCost(adjusted)
           maxSeverity == maxSeverityOf(adjusted)
           priority == priorityOf(maxSeverity)
           failure ==
               IF gen[g].existing = NoId
               THEN IF PlanUniqueViolation(gen[g].inspectionId) THEN "P2002"
                    ELSE IF ~InspectionExists(gen[g].inspectionId)
                    THEN "P2003" ELSE "none"
               ELSE IF \E p \in plans : p.id = gen[g].existing THEN "none"
                    ELSE "P2025"
       IN  IF failure # "none"
           THEN /\ gen' = [gen EXCEPT ![g].pc = "done",
                                      ![g].outcome = failure]
                /\ UNCHANGED <<plans, nextPlanId, clock>>
           ELSE LET plan == upsert(gen[g].existing, gen[g].inspectionId,
                                   priority, total, adjusted)
                IN  /\ plans' = {p \in plans : p.id # plan.id} \cup {plan}
                    /\ nextPlanId' = IF plan.id = nextPlanId
                                     THEN nextPlanId + 1 ELSE nextPlanId
                    /\ clock' = clock + 1
                    /\ gen' = [gen EXCEPT ![g].pc = "notify",
                                          ![g].plan = plan]
    /\ UNCHANGED notPlanVars

\* The fourth step: notifyPlan with the plan the upsert returned, then the
\* response.  An emit that throws leaves notifyPlan and the handler's try.
GenerateNotify(g, ep) ==
    /\ gen[g].pc = "notify"
    /\ gen[g].ep = ep
    /\ \E failed \in SUBSET sseClients :
          /\ notifyPlan(g, gen[g].inspectionId, planDataOf(gen[g].plan),
                        failed)
          /\ gen' = [gen EXCEPT ![g].pc = "done",
                                ![g].outcome = IF emitThrows THEN "error"
                                               ELSE "created"]
    /\ UNCHANGED <<plans, nextPlanId, clock, conns, ioServer,
                   notPlanNotifyVars>>

\* repair-plans route, POST /:inspectionId
PostRepairPlan(g) ==
    \/ GenerateLoad(g, "restGenerate")
    \/ GenerateUpsertFind(g, "restGenerate")
    \/ GenerateUpsertWrite(g, "restGenerate",
           {[f EXCEPT !.severity = GenerateRule(f.category, f.severity,
                                                f.notes)] :
               f \in gen[g].findings})
    \/ GenerateNotify(g, "restGenerate")

\* GraphQL Mutation.generateRepairPlan
generateRepairPlan(g) ==
    \/ GenerateLoad(g, "gqlGenerate")
    \/ GenerateUpsertFind(g, "gqlGenerate")
    \/ GenerateUpsertWrite(g, "gqlGenerate",
           {[f EXCEPT !.severity = applySeverityRule(f.category, f.severity,
                                                     f.notes)] :
               f \in gen[g].findings})
    \/ GenerateNotify(g, "gqlGenerate")

\* repair-plans route, DELETE /inspections/:inspectionId/repair-plan, for an
\* inspection that has a plan.
DeleteRepairPlan ==
    /\ \E p \in plans : plans' = plans \ {p}
    /\ UNCHANGED <<nextPlanId, clock, gen, notPlanVars>>

----------------------------------------------------------------------------
(* The Turbine table, the deletes with their cascades, and the routes that *)
(* write a RepairPlan by hand.  Each of these handlers makes one call of   *)
(* the store, which the store serves atomically.                           *)

TurbineNames == {"north", "south"}

\* The turbines of the stored inspections.
StoredTurbines ==
    [rows |-> {[id |-> t, name |-> "north"] : t \in Turbines},
     nextId |-> MaxTurbines + 1]

\* res.json(...) / res.status(...).json({ error }) of a handler that makes
\* one call of the store
Respond(op, status, id) ==
    last' = [NoResponse EXCEPT !.op = op, !.status = status, !.id = id]

\* turbines route, POST /: 400 without a name
PostTurbine ==
    /\ turbines.nextId <= MaxTurbines + 1
    /\ \E name \in TurbineNames \cup {NoCategory} :
          IF name = NoCategory
          THEN /\ Respond("PostTurbine", "badRequest", NoId)
               /\ UNCHANGED turbines
          ELSE /\ turbines' =
                      [rows |-> turbines.rows \cup
                                   {[id |-> turbines.nextId, name |-> name]},
                       nextId |-> turbines.nextId + 1]
               /\ Respond("PostTurbine", "created", turbines.nextId)
    /\ UNCHANGED <<findings, nextFindingId, client, stalled, overlapVars, rule,
                   planVars, notifyVars>>

\* turbines route, PUT /:id: ...(name && { name }); P2025 for a turbine that
\* does not exist
PutTurbine ==
    /\ \E id \in 1..turbines.nextId, name \in TurbineNames \cup {NoCategory} :
          IF \A t \in turbines.rows : t.id # id
          THEN /\ Respond("PutTurbine", "error", NoId)
               /\ UNCHANGED turbines
          ELSE /\ turbines' =
                      [turbines EXCEPT !.rows =
                          {IF t.id = id /\ name # NoCategory
                           THEN [t EXCEPT !.name = name] ELSE t :
                              t \in turbines.rows}]
               /\ Respond("PutTurbine", "ok", id)
    /\ UNCHANGED <<findings, nextFindingId, client, stalled, overlapVars, rule,
                   planVars, notifyVars>>

\* The deletes leaving the rows of the inspection behind.
CascadeFindingsNone(gone) == findings

\* migration.sql, ON DELETE CASCADE of Finding_inspectionId_fkey and of
\* RepairPlan_inspectionId_fkey: what is left once the inspections gone are
\* deleted.
CascadeFindings(gone) == {f \in findings : f.inspectionId \notin gone}

CascadePlans(gone) == {p \in plans : p.inspectionId \notin gone}

\* prisma.turbine.delete: the row, its inspections by
\* Inspection_turbineId_fkey, and their findings and plans.
DeleteTurbineRow(op, id) ==
    LET gone == {i.id : i \in {x \in inspections : x.turbineId = id}}
    IN  IF \A t \in turbines.rows : t.id # id
        THEN /\ Respond(op, "error", NoId)
             /\ UNCHANGED <<turbines, inspections, findings, plans>>
        ELSE /\ turbines' = [turbines EXCEPT !.rows =
                                {t \in turbines.rows : t.id # id}]
             /\ inspections' = {i \in inspections : i.turbineId # id}
             /\ findings' = CascadeFindings(gone)
             /\ plans' = CascadePlans(gone)
             /\ Respond(op, "ok", id)

\* turbines route, DELETE /:id
DeleteTurbine ==
    /\ \E id \in 1..turbines.nextId : DeleteTurbineRow("DeleteTurbine", id)
    /\ UNCHANGED <<tz, nextInspId, req, nextFindingId, nextPlanId, clock,
                   gen, client, stalled, rule, notifyVars>>

\* GraphQL Mutation.deleteTurbine
deleteTurbine ==
    /\ \E id \in 1..turbines.nextId : DeleteTurbineRow("deleteTurbine", id)
    /\ UNCHANGED <<tz, nextInspId, req, nextFindingId, nextPlanId, clock,
                   gen, client, stalled, rule, notifyVars>>

\* prisma.inspection.delete: the row with its findings and its plan; P2025
\* for an inspection that does not exist.
DeleteInspectionRow(op, id) ==
    IF ~InspectionExists(id)
    THEN /\ Respond(op, "error", NoId)
         /\ UNCHANGED <<inspections, findings, plans>>
    ELSE /\ inspections' = {i \in inspections : i.id # id}
         /\ findings' = CascadeFindings({id})
         /\ plans' = CascadePlans({id})
         /\ Respond(op, "ok", id)

\* inspections route, DELETE /:id
DeleteInspection ==
    /\ \E id \in 1..nextInspId : DeleteInspectionRow("DeleteInspection", id)
    /\ UNCHANGED <<tz, nextInspId, req, nextFindingId, nextPlanId, clock,
                   gen, siteVars, rule, notifyVars>>

\* GraphQL Mutation.deleteInspection
deleteInspection ==
    /\ \E id \in 1..nextInspId : DeleteInspectionRow("deleteInspection", id)
    /\ UNCHANGED <<tz, nextInspId, req, nextFindingId, nextPlanId, clock,
                   gen, siteVars, rule, notifyVars>>

\* prisma.finding.delete; P2025 for a finding that does not exist
DeleteFindingRow(op, id) ==
    /\ IF \A f \in findings : f.id # id
       THEN /\ Respond(op, "error", NoId)
            /\ UNCHANGED findings
       ELSE /\ findings' = {f \in findings : f.id # id}
            /\ Respond(op, "ok", id)
    /\ UNCHANGED <<nextFindingId, notFindingVars>>

\* findings route, DELETE /:id
DeleteFinding ==
    \E id \in 1..nextFindingId : DeleteFindingRow("DeleteFinding", id)

\* GraphQL Mutation.deleteFinding
deleteFinding ==
    \E id \in 1..nextFindingId : DeleteFindingRow("deleteFinding", id)

\* What clients send as the priority and the cost of a plan written by
\* hand.
PlanPriorities == {"LOW", "HIGH"}
PlanCosts == {0, 7}

\* prisma.repairPlan.create({ data: { inspectionId, priority,
\* totalEstimatedCost, snapshotJson: [] } })
createPlan(inspectionId, priority, total) ==
    [id |-> nextPlanId, inspectionId |-> inspectionId,
     priority |-> priority, totalEstimatedCost |-> total,
     snapshotJson |-> {}, createdAt |-> clock, updatedAt |-> clock]

\* The create going on although the inspection has a plan.
PlanCreateFailureNever(inspectionId) ==
    IF ~InspectionExists(inspectionId) THEN "P2003" ELSE "none"

\* What prisma.repairPlan.create throws: the create is refused by
\* RepairPlan_inspectionId_key (P2002) or by RepairPlan_inspectionId_fkey
\* (P2003).
PlanCreateFailure(inspectionId) ==
    IF PlanUniqueViolation(inspectionId) THEN "P2002"
    ELSE IF ~InspectionExists(inspectionId) THEN "P2003" ELSE "none"

\* repair-plans route, POST /inspections/:inspectionId/repair-plan: the
\* catch answers 500 with the message of the error.
PostInspectionRepairPlan ==
    /\ \E inspectionId \in 1..nextInspId, priority \in PlanPriorities,
          total \in PlanCosts :
          LET failure == PlanCreateFailure(inspectionId)
          IN  IF failure # "none"
              THEN /\ Respond("PostInspectionRepairPlan", failure, NoId)
                   /\ UNCHANGED <<plans, nextPlanId, clock>>
              ELSE LET plan == createPlan(inspectionId, priority, total)
                   IN  /\ plans' = plans \cup {plan}
                       /\ nextPlanId' = nextPlanId + 1
                       /\ clock' = clock + 1
                       /\ Respond("PostInspectionRepairPlan", "created",
                                  plan.id)
    /\ UNCHANGED <<findings, nextFindingId, gen, overlapVars, rule,
                   notifyVars, siteVars>>

\* repair-plans route, PUT /inspections/:inspectionId/repair-plan: if
\* (priority) updateData.priority = priority; P2025 without a plan.
PutInspectionRepairPlan ==
    /\ \E inspectionId \in 1..nextInspId,
          priority \in PlanPriorities \cup {NoCategory},
          total \in PlanCosts \cup {NoNumber} :
          IF ~PlanUniqueViolation(inspectionId)
          THEN /\ Respond("PutInspectionRepairPlan", "error", NoId)
               /\ UNCHANGED <<plans, clock>>
          ELSE LET old == CHOOSE p \in plans : p.inspectionId = inspectionId
                   new == [old EXCEPT
                              !.priority = IF priority = NoCategory
                                           THEN @ ELSE priority,
                              !.totalEstimatedCost = IF total = NoNumber
                                                     THEN @ ELSE total,
                              !.updatedAt = clock]
               IN  /\ plans' = (plans \ {old}) \cup {new}
                   /\ clock' = clock + 1
                   /\ Respond("PutInspectionRepairPlan", "ok", old.id)
    /\ UNCHANGED <<findings, nextFindingId, nextPlanId, gen, overlapVars,
                   rule, notifyVars, siteVars>>

----------------------------------------------------------------------------
(* The role middleware: authMiddleware and requireRole in front of every   *)
(* REST handler that writes, requireRole(context, ...) as the first        *)
(* statement of every GraphQL mutation that writes.  A request is decided  *)
(* and, when admitted, its handler runs to its first await in one step.    *)

MaxCalls == 2

Roles == {"ADMIN", "ENGINEER", "VIEWER"}

\* The role of a request without a valid token.
NoRole == "none"

NoAuth == [n |-> 0, role |-> NoRole, route |-> "none", status |-> "none"]

\* router.<method>(path, authMiddleware, requireRole(...)) and
\* requireRole(context, ...): the roles each writing route names.
RouteRoles ==
    [PostTurbine |-> {"ADMIN", "ENGINEER"},
     PutTurbine |-> {"ADMIN", "ENGINEER"},
     DeleteTurbine |-> {"ADMIN"},
     createTurbine |-> {"ADMIN", "ENGINEER"},
     updateTurbine |-> {"ADMIN", "ENGINEER"},
     deleteTurbine |-> {"ADMIN"},
     PostTurbineInspections |-> {"ADMIN", "ENGINEER"},
     PostInspections |-> {"ADMIN", "ENGINEER"},
     TurbinesPostInspections |-> {"ADMIN", "ENGINEER"},
     PutInspection |-> {"ADMIN", "ENGINEER"},
     DeleteInspection |-> {"ADMIN"},
     createInspection |-> {"ADMIN", "ENGINEER"},
     updateInspection |-> {"ADMIN", "ENGINEER"},
     deleteInspection |-> {"ADMIN"},
     PostInspectionFindings |-> {"ADMIN", "ENGINEER"},
     PostFindings |-> {"ADMIN", "ENGINEER"},
     PutFinding |-> {"ADMIN", "ENGINEER"},
     DeleteFinding |-> {"ADMIN"},
     createFinding |-> {"ADMIN", "ENGINEER"},
     updateFinding |-> {"ADMIN", "ENGINEER"},
     deleteFinding |-> {"ADMIN"},
     PostInspectionRepairPlan |-> {"ADMIN", "ENGINEER"},
     PutInspectionRepairPlan |-> {"ADMIN"},
     DeleteRepairPlan |-> {"ADMIN"},
     PostRepairPlan |-> {"ADMIN", "ENGINEER"},
     generateRepairPlan |-> {"ADMIN", "ENGINEER"}]

\* The check letting every authenticated request through.
requireRoleAuthenticated(role, roles) == role # NoRole

\* requireRole: !req.user || !roles.includes(req.user.role) answers 403; the
\* GraphQL one throws Forbidden.  authMiddleware has answered 401 before for
\* a request without a token.
requireRole(role, roles) == role # NoRole /\ role \in roles

\* What the middleware leaves alone when it refuses a request.
storeVars ==
    <<overlapVars, rule, findingVars, planVars, notifyVars, siteVars>>

\* One request for a route: decided by the middleware, then handled.
\* handler is the handler's step from the arrival of the request.
Route(route, handler) ==
    /\ auth.n < MaxCalls
    /\ \E role \in Roles \cup {NoRole} :
          IF requireRole(role, RouteRoles[route])
          THEN /\ handler
               /\ auth' = [n |-> auth.n + 1, role |-> role, route |-> route,
                           status |-> "next"]
          ELSE /\ UNCHANGED storeVars
               /\ auth' = [n |-> auth.n + 1, role |-> role, route |-> route,
                           status |-> IF role = NoRole THEN "unauthorized"
                                      ELSE "forbidden"]

\* A later step of a handler that was admitted.
Resumes(handler) == handler /\ UNCHANGED auth

\* GraphQL Mutation.createTurbine
createTurbine ==
    /\ turbines.nextId <= MaxTurbines + 1
    /\ \E name \in TurbineNames :
          /\ turbines' =
                 [rows |-> turbines.rows \cup
                              {[id |-> turbines.nextId, name |-> name]},
                  nextId |-> turbines.nextId + 1]
          /\ Respond("createTurbine", "created", turbines.nextId)
    /\ UNCHANGED <<findings, nextFindingId, client, stalled, overlapVars, rule,
                   planVars, notifyVars>>

\* GraphQL Mutation.updateTurbine
updateTurbine ==
    /\ \E id \in 1..turbines.nextId, name \in TurbineNames \cup {NoCategory} :
          IF \A t \in turbines.rows : t.id # id
          THEN /\ Respond("updateTurbine", "error", NoId)
               /\ UNCHANGED turbines
          ELSE /\ turbines' =
                      [turbines EXCEPT !.rows =
                          {IF t.id = id /\ name # NoCategory
                           THEN [t EXCEPT !.name = name] ELSE t :
                              t \in turbines.rows}]
               /\ Respond("updateTurbine", "ok", id)
    /\ UNCHANGED <<findings, nextFindingId, client, stalled, overlapVars, rule,
                   planVars, notifyVars>>

\* An inspection request arrives at slot r / goes on.
ReqIdle(r) == req[r].pc = "idle"

\* A generate request arrives at slot g / goes on.
GenIdle(g) == gen[g].pc = "idle"

\* Every REST route and GraphQL mutation that writes, behind its check.
Requests ==
    \/ Route("PostTurbine", PostTurbine)
    \/ Route("PutTurbine", PutTurbine)
    \/ Route("DeleteTurbine", DeleteTurbine)
    \/ Route("createTurbine", createTurbine)
    \/ Route("updateTurbine", updateTurbine)
    \/ Route("deleteTurbine", deleteTurbine)
    \/ \E r \in ReqIds :
          \/ Route("PostTurbineInspections",
                   ReqIdle(r) /\ PostTurbineInspections(r))
          \/ Route("PostInspections", ReqIdle(r) /\ PostInspections(r))
          \/ Route("TurbinesPostInspections",
                   ReqIdle(r) /\ TurbinesPostInspections(r))
          \/ Route("createInspection", ReqIdle(r) /\ createInspection(r))
          \/ Route("PutInspection", ReqIdle(r) /\ PutInspection(r))
          \/ Route("updateInspection", ReqIdle(r) /\ updateInspection(r))
          \/ Resumes(~ReqIdle(r) /\ PostTurbineInspections(r))
          \/ Resumes(~ReqIdle(r) /\ PostInspections(r))
          \/ Resumes(~ReqIdle(r) /\ TurbinesPostInspections(r))
          \/ Resumes(~ReqIdle(r) /\ createInspection(r))
          \/ Resumes(~ReqIdle(r) /\ PutInspection(r))
          \/ Resumes(~ReqIdle(r) /\ updateInspection(r))
    \/ Route("DeleteInspection", DeleteInspection)
    \/ Route("deleteInspection", deleteInspection)
    \/ Route("PostInspectionFindings", PostInspectionFindings)
    \/ Route("PostFindings", PostFindings)
    \/ Route("PutFinding", PutFinding)
    \/ Route("DeleteFinding", DeleteFinding)
    \/ Route("createFinding", createFinding)
    \/ Route("updateFinding", updateFinding)
    \/ Route("deleteFinding", deleteFinding)
    \/ Route("PostInspectionRepairPlan", PostInspectionRepairPlan)
    \/ Route("PutInspectionRepairPlan", PutInspectionRepairPlan)
    \/ Route("DeleteRepairPlan", DeleteRepairPlan)
    \/ \E g \in GenIds :
          \/ Route("PostRepairPlan", GenIdle(g) /\ PostRepairPlan(g))
          \/ Route("generateRepairPlan", GenIdle(g) /\ generateRepairPlan(g))
          \/ Resumes(~GenIdle(g) /\ PostRepairPlan(g))
          \/ Resumes(~GenIdle(g) /\ generateRepairPlan(g))

----------------------------------------------------------------------------
(* The browser client: services/realtime.ts as the RepairPlans page uses   *)
(* it.  socket and sse are the module's two variables; the socket is a     *)
(* socket.io client, which goes on trying to connect after an error.  The  *)
(* events of the two channels reach the client in the order of sent, each  *)
(* channel at its own pace.                                                *)

NoClient ==
    [mounted |-> FALSE, socket |-> "null", wsNext |-> 1, sse |-> "null",
     handle |-> NoId, since |-> 0, sseNext |-> 1, calls |-> <<>>]

notClientVars ==
    <<overlapVars, rule, findingVars, planVars, notifyVars, turbines,
      stalled>>

\* The fallback that is never opened.
connectSSENever(c) == c

\* connectSSE: if (sseEventSource) return; sseEventSource = new
\* EventSource('/sse/repairplans') with its listeners.  The stream carries
\* what is broadcast from now on.
connectSSE(c) ==
    IF c.sse # "null" THEN c
    ELSE [c EXCEPT !.sse = "open", !.handle = NoId, !.since = Len(sent),
                   !.sseNext = Len(sent) + 1]

\* connectWebSocket: if (socket?.connected) return; socket = io(...) with
\* its listeners.
connectWebSocket(c) ==
    IF c.socket = "connected" THEN c ELSE [c EXCEPT !.socket = "connecting"]

\* disconnect()
disconnect(c) ==
    [c EXCEPT !.socket = "null", !.sse = "null", !.handle = NoId]

\* RepairPlans page, useEffect: connectWebSocket(handlePlanCreated)
PageMounts ==
    /\ ~client.mounted
    /\ client' = [connectWebSocket(client) EXCEPT !.mounted = TRUE]
    /\ UNCHANGED notClientVars

\* RepairPlans page, the effect's cleanup: disconnect()
PageUnmounts ==
    /\ client.mounted
    /\ client' = [disconnect(client) EXCEPT !.mounted = FALSE]
    /\ UNCHANGED notClientVars

\* socket.on('connect'): the socket receives what is emitted from now on.
SocketConnect ==
    /\ client.socket \in {"connecting", "waiting"}
    /\ client' = [client EXCEPT !.socket = "connected",
                                !.wsNext = Len(sent) + 1]
    /\ UNCHANGED notClientVars

\* socket.on('connect_error', () => connectSSE(onPlanCreated)): an attempt
\* to connect failed; the socket waits and tries again.
SocketConnectError ==
    /\ client.socket \in {"connecting", "waiting"}
    /\ client' = connectSSE([client EXCEPT !.socket = "waiting"])
    /\ UNCHANGED notClientVars

\* socket.on('disconnect'): the connection is lost; the socket tries again.
SocketDisconnect ==
    /\ client.socket = "connected"
    /\ client' = [client EXCEPT !.socket = "waiting"]
    /\ UNCHANGED notClientVars

\* The request of the EventSource is served as handle o.
EventSourceOpens(o) ==
    /\ client.sse = "open"
    /\ client.handle = NoId
    /\ conns[o].state = "open"
    /\ conns[o].endpoint = "sseRepairplans"
    /\ client' = [client EXCEPT !.handle = o]
    /\ UNCHANGED notClientVars

\* sseEventSource.onerror: close and forget the stream
EventSourceError ==
    /\ client.sse = "open"
    /\ client' = [client EXCEPT !.sse = "null", !.handle = NoId]
    /\ UNCHANGED notClientVars

\* onPlanCreated(data), for broadcast k, when the listener's event arrived
onEvent(c, k, via, hit, data) ==
    IF hit
    THEN [c EXCEPT !.calls = Append(@, [k |-> k, via |-> via, data |-> data,
                                        mounted |-> c.mounted])]
    ELSE c

\* sseEventSource.addEventListener('repairplan:created', (event) =>
\* onPlanCreated(JSON.parse(event.data))): the next broadcast, if its frame
\* was written to the client's stream.
SseMessage ==
    /\ client.sse = "open"
    /\ client.handle # NoId
    /\ client.sseNext <= Len(sent)
    /\ LET k == client.sseNext
           b == sent[k]
       IN  client' = [onEvent(client, k, "sse",
                              /\ client.handle \in b.written
                              /\ b.frame.event = "repairplan:created",
                              JSONparse(b.frame.data))
                         EXCEPT !.sseNext = k + 1]
    /\ UNCHANGED notClientVars

\* socket.on('repairplan:created', (data) => onPlanCreated(data)): the next
\* broadcast, if its emit was made.
SocketMessage ==
    /\ client.socket = "connected"
    /\ client.wsNext <= Len(sent)
    /\ LET k == client.wsNext
           b == sent[k]
       IN  client' = [onEvent(client, k, "ws",
                              /\ b.emit.returned
                              /\ b.emit.event = "repairplan:created",
                              b.emit.payload)
                         EXCEPT !.wsNext = k + 1]
    /\ UNCHANGED notClientVars

----------------------------------------------------------------------------
(* The overlap guard under concurrent requests *)

InitOverlap ==
    /\ tz \in TzOffsets
    /\ inspections = {}
    /\ nextInspId = 1
    /\ req = [r \in ReqIds |-> IdleReq]
    /\ rule = NoRule
    /\ findings = {}
    /\ nextFindingId = 1
    /\ last = NoResponse
    /\ plans = {}
    /\ nextPlanId = 1
    /\ clock = 1
    /\ gen = [g \in GenIds |-> IdleGen]
    /\ sseClients = {}
    /\ conns = [o \in ObsIds |-> NoConn]
    /\ ioServer = "up"
    /\ sent = <<>>
    /\ turbines = StoredTurbines
    /\ client = NoClient
    /\ stalled = {}
    /\ auth = NoAuth

NextOverlap ==
    /\ \E r \in ReqIds :
           \/ PostTurbineInspections(r)
           \/ PostInspections(r)
           \/ TurbinesPostInspections(r)
           \/ createInspection(r)
           \/ PutInspection(r)
           \/ updateInspection(r)
    /\ UNCHANGED auth

SpecOverlap == InitOverlap /\ [][NextOverlap]_vars

Done(r) == req[r].pc = "done"

\* The row a finished create request inserted is still as it was inserted.
RowAsCreated(r) ==
    \E i \in inspections : i.id = req[r].id /\ i.date = req[r].dateObj

\* C1: in every reachable state, under any interleaving of the create and
\* update requests of all entry points, no two stored inspections of the same
\* turbine have the same calendar date.
C1_NoOverlap ==
    \A i, j \in inspections :
        (i.id # j.id /\ i.turbineId = j.turbineId)
            => UtcDay(i.date) # UtcDay(j.date)

\* C1 witness: a date-changing update lost a race (the store refused its
\* write) while two inspections are stored.
C1_Witness ==
    \E r \in ReqIds :
        /\ Done(r)
        /\ req[r].ep \in UpdateEndpoints
        /\ req[r].dbError = "P2002"
        /\ Cardinality(inspections) = 2

\* C2: on every inspection-creating entry point, a create request whose
\* insert hit the store's uniqueness violation ends with the Conflict outcome,
\* never with a generic failure.
C2_UniqueViolationIsConflict ==
    \A r \in ReqIds :
        (Done(r) /\ req[r].ep \in CreateEndpoints /\ req[r].dbError = "P2002")
            => req[r].outcome = "conflict"

\* C3: two create requests for the same turbine whose timestamps fall on the
\* same UTC calendar date are never both accepted (while the rows they
\* inserted are as inserted): the later one is rejected with Conflict.
C3_SameUtcDateConflicts ==
    \A q, r \in ReqIds :
        ~ ( /\ q # r
            /\ Done(q) /\ req[q].ep \in CreateEndpoints
            /\ Done(r) /\ req[r].ep \in CreateEndpoints
            /\ req[q].outcome = "created" /\ req[r].outcome = "created"
            /\ req[q].turbineId = req[r].turbineId
            /\ UtcDay(req[q].date) = UtcDay(req[r].date)
            /\ RowAsCreated(q) /\ RowAsCreated(r) )

\* C4: a create request ends in Conflict only when some accepted request of
\* the same turbine carried a timestamp on the same calendar date; creates on
\* different calendar dates, or for different turbines, never conflict.
C4_ConflictOnlyOnSameDate ==
    \A r \in ReqIds :
        (Done(r) /\ req[r].ep \in CreateEndpoints /\ req[r].outcome = "conflict")
            => \E q \in ReqIds \ {r} :
                  /\ Done(q)
                  /\ req[q].outcome \in {"created", "ok"}
                  /\ req[q].date # NoDate
                  /\ req[q].turbineId = req[r].turbineId
                  /\ UtcDay(req[q].date) = UtcDay(req[r].date)

\* C5: on the REST and the GraphQL update, an update whose new date is taken
\* by another inspection of the same turbine ends in Conflict, also when the
\* store's uniqueness violation reports it after a lost race.
C5_UpdateViolationIsConflict ==
    \A r \in ReqIds :
        (Done(r) /\ req[r].ep \in UpdateEndpoints /\ req[r].dbError = "P2002")
            => req[r].outcome = "conflict"

----------------------------------------------------------------------------
(* The severity rule as a function: every copy applied to the same inputs *)

\* The result of a site that computes <<adjustedSeverity, severityAdjusted>>.
Flagged(result) ==
    [applied |-> TRUE, adjustedSeverity |-> result[1], hasFlag |-> TRUE,
     severityAdjusted |-> result[2]]

\* The result of a site that computes the adjusted severity only.
Unflagged(adjustedSeverity) ==
    [applied |-> TRUE, adjustedSeverity |-> adjustedSeverity,
     hasFlag |-> FALSE, severityAdjusted |-> FALSE]

\* One site applies its copy of the rule to the inputs drawn at the start.
Apply(site, result) ==
    /\ ~rule.at[site].applied
    /\ rule' = [rule EXCEPT !.at[site] = result]
    /\ UNCHANGED notRuleVars

ApplyPostInspectionFindings ==
    Apply("PostInspectionFindings",
          Flagged(PostInspectionFindingsRule(rule.category, rule.severity,
                                             rule.notes)))

ApplyPostFindings ==
    Apply("PostFindings",
          Flagged(PostFindingsRule(rule.category, rule.severity, rule.notes)))

ApplyPutFinding ==
    Apply("PutFinding",
          Flagged(PutFindingRule(rule.category, rule.severity, rule.notes)))

ApplyCreateFinding ==
    Apply("createFinding",
          Flagged(createFindingRule(rule.category, rule.severity, rule.notes)))

ApplyUpdateFinding ==
    Apply("updateFinding",
          Unflagged(updateFindingRule(rule.category, rule.severity,
                                      rule.notes)))

ApplyGenerate ==
    Apply("Generate",
          Unflagged(GenerateRule(rule.category, rule.severity, rule.notes)))

ApplySeverityRules ==
    Apply("applySeverityRules",
          Unflagged(applySeverityRule(rule.category, rule.severity,
                                      rule.notes)))

InitRule ==
    /\ tz = 0
    /\ inspections = {}
    /\ nextInspId = 1
    /\ req = [r \in ReqIds |-> IdleReq]
    /\ \E category \in Categories, severity \in Severities,
          notes \in RuleNotes :
          rule = [NoRule EXCEPT !.category = category, !.severity = severity,
                                !.notes = notes]
    /\ findings = {}
    /\ nextFindingId = 1
    /\ last = NoResponse
    /\ plans = {}
    /\ nextPlanId = 1
    /\ clock = 1
    /\ gen = [g \in GenIds |-> IdleGen]
    /\ sseClients = {}
    /\ conns = [o \in ObsIds |-> NoConn]
    /\ ioServer = "up"
    /\ sent = <<>>
    /\ turbines = StoredTurbines
    /\ client = NoClient
    /\ stalled = {}
    /\ auth = NoAuth

NextRule ==
    /\ \/ ApplyPostInspectionFindings
       \/ ApplyPostFindings
       \/ ApplyPutFinding
       \/ ApplyCreateFinding
       \/ ApplyUpdateFinding
       \/ ApplyGenerate
       \/ ApplySeverityRules
    /\ UNCHANGED auth

SpecRule == InitRule /\ [][NextRule]_vars

\* The notes contain "crack" in any mix of upper and lower case.
ContainsCrackAnyCase(notes) ==
    /\ notes # Null
    /\ \E i \in 1..(Len(notes) - 4) :
          /\ notes[i] \in {"c", "C"}
          /\ notes[i + 1] \in {"r", "R"}
          /\ notes[i + 2] \in {"a", "A"}
          /\ notes[i + 3] \in {"c", "C"}
          /\ notes[i + 4] \in {"k", "K"}

\* The effective severity the rule prescribes.
EffectiveSeverity(category, rawSeverity, notes) ==
    IF category = "BLADE_DAMAGE" /\ ContainsCrackAnyCase(notes)
    THEN (IF rawSeverity < 4 THEN 4 ELSE rawSeverity)
    ELSE rawSeverity

\* C6: wherever the rule is applied, the effective severity is
\* max(rawSeverity, 4) for BLADE_DAMAGE with notes containing "crack" in any
\* case and rawSeverity otherwise, and wasAdjusted is true exactly when the
\* effective severity differs from the raw one.
C6_AdjustSeverity ==
    \A s \in RuleSites :
        rule.at[s].applied =>
            /\ rule.at[s].adjustedSeverity =
                   EffectiveSeverity(rule.category, rule.severity, rule.notes)
            /\ rule.at[s].hasFlag =>
                   (rule.at[s].severityAdjusted <=>
                        rule.at[s].adjustedSeverity # rule.severity)

\* C6 witness: severity 5 with "crack" in BLADE_DAMAGE notes gives (5, false)
\* at the nested REST create.
C6_Witness ==
    /\ rule.category = "BLADE_DAMAGE"
    /\ rule.severity = 5
    /\ ContainsCrackAnyCase(rule.notes)
    /\ rule.at["PostInspectionFindings"].applied
    /\ rule.at["PostInspectionFindings"].adjustedSeverity = 5
    /\ ~rule.at["PostInspectionFindings"].severityAdjusted

\* C7: all the places that apply the severity rule compute the same
\* effective severity for the same category, notes and severity.
C7_SameRuleEverywhere ==
    \A s, t \in RuleSites :
        (rule.at[s].applied /\ rule.at[t].applied) =>
            rule.at[s].adjustedSeverity = rule.at[t].adjustedSeverity

\* C7 witness: every site has applied the rule to a BLADE_DAMAGE finding with
\* upper-case "CRACK" notes and severity 2, and the severity was raised.
C7_Witness ==
    /\ \A s \in RuleSites : rule.at[s].applied
    /\ rule.category = "BLADE_DAMAGE"
    /\ rule.severity = 2
    /\ rule.notes = <<"C", "R", "A", "C", "K">>
    /\ rule.at["applySeverityRules"].adjustedSeverity = 4

----------------------------------------------------------------------------
(* Finding creates and updates over a stored inspection *)

\* Two inspections of turbine 1, as two creates on different days leave them.
StoredInspections ==
    {[id |-> d, turbineId |-> 1, date |-> 24 * d] : d \in 1..MaxDay}

InitFindings ==
    /\ tz = 0
    /\ inspections = {i \in StoredInspections : i.id = 1}
    /\ nextInspId = 2
    /\ req = [r \in ReqIds |-> IdleReq]
    /\ rule = NoRule
    /\ findings = {}
    /\ nextFindingId = 1
    /\ last = NoResponse
    /\ plans = {}
    /\ nextPlanId = 1
    /\ clock = 1
    /\ gen = [g \in GenIds |-> IdleGen]
    /\ sseClients = {}
    /\ conns = [o \in ObsIds |-> NoConn]
    /\ ioServer = "up"
    /\ sent = <<>>
    /\ turbines = StoredTurbines
    /\ client = NoClient
    /\ stalled = {}
    /\ auth = NoAuth

NextFindings ==
    /\ \/ PostInspectionFindings
       \/ PostFindings
       \/ createFinding
       \/ PutFinding
       \/ updateFinding
    /\ UNCHANGED auth

SpecFindings == InitFindings /\ [][NextFindings]_vars

\* C8: every stored finding whose category is BLADE_DAMAGE and whose notes
\* contain "crack" has a stored severity of at least 4, after any sequence
\* of finding creates and updates.
C8_StoredCrackSeverityAtLeastFour ==
    \A f \in findings :
        (f.category = "BLADE_DAMAGE" /\ ContainsCrackAnyCase(f.notes)) =>
            f.severity >= 4

\* C9: in every REST finding create or update response, severityAdjusted is
\* true exactly when the severity returned differs from the raw severity the
\* rule was applied to, and then originalSeverity is that raw severity;
\* otherwise originalSeverity is absent.
C9_FlagMatchesReturnedSeverity ==
    (last.hasFlag /\ last.status \in {"created", "ok"}) =>
        /\ last.severityAdjusted <=> (last.severity # last.raw)
        /\ last.severityAdjusted => last.originalSeverity = last.raw
        /\ ~last.severityAdjusted => last.originalSeverity = NoNumber

----------------------------------------------------------------------------
(* Plan generation over stored findings *)

\* Severities of stored findings, on both sides of each priority threshold.
StoredSeverities == 2..5

\* Notes of stored findings: none, and notes the rule matches.
StoredNotes == {Null, <<"C", "r", "a", "c", "k">>}

StoredFindings ==
    [inspectionId : 1..MaxDay, category : FindingCategories,
     severity : StoredSeverities, estimatedCost : FindingCosts,
     notes : StoredNotes]

InitPlan ==
    /\ tz = 0
    /\ inspections = StoredInspections
    /\ nextInspId = MaxDay + 1
    /\ req = [r \in ReqIds |-> IdleReq]
    /\ rule = NoRule
    /\ \E n \in 0..MaxFindings :
          /\ \E row \in [1..n -> StoredFindings] :
                findings =
                    {[id |-> i, inspectionId |-> row[i].inspectionId,
                      category |-> row[i].category,
                      severity |-> row[i].severity,
                      estimatedCost |-> row[i].estimatedCost,
                      notes |-> row[i].notes] : i \in 1..n}
          /\ nextFindingId = n + 1
    /\ last = NoResponse
    /\ plans = {}
    /\ nextPlanId = 1
    /\ clock = 1
    /\ gen = [g \in GenIds |-> IdleGen]
    /\ sseClients = {}
    /\ conns = [o \in ObsIds |-> NoConn]
    /\ ioServer = "up"
    /\ sent = <<>>
    /\ turbines = StoredTurbines
    /\ client = NoClient
    /\ stalled = {}
    /\ auth = NoAuth

\* The generations that have started and not yet answered.
InFlight == {g \in GenIds : gen[g].pc \notin {"idle", "done"}}

\* The step leaves at most one generation in flight: the requests are
\* served one after the other.
OneAtATime == Cardinality(InFlight') <= 1

NextPlan ==
    /\ /\ \E g \in GenIds :
             \/ PostRepairPlan(g)
             \/ generateRepairPlan(g)
       /\ OneAtATime
    /\ UNCHANGED auth

SpecPlan == InitPlan /\ [][NextPlan]_vars

\* The sum of the costs of the findings with ids up to n.
RECURSIVE CostSum(_, _)
CostSum(fs, n) ==
    IF n = 0 THEN 0
    ELSE LET here == {f \in fs : f.id = n}
         IN  (IF here = {} THEN 0
              ELSE (CHOOSE f \in here : TRUE).estimatedCost)
             + CostSum(fs, n - 1)

\* Some finding has rule-adjusted severity at least s.
SomeEffectiveAtLeast(fs, s) ==
    \E f \in fs : EffectiveSeverity(f.category, f.severity, f.notes) >= s

\* The priority the findings call for.
ExpectedPriority(fs) ==
    IF SomeEffectiveAtLeast(fs, 5) THEN "HIGH"
    ELSE IF SomeEffectiveAtLeast(fs, 3) THEN "MEDIUM"
    ELSE "LOW"

\* C10: a generation writes a plan whose totalEstimatedCost is the sum of the
\* costs of the inspection's findings and whose priority is HIGH when the
\* maximum rule-adjusted severity is at least 5, MEDIUM when it is 3 or 4
\* and LOW otherwise; every stored plan is one a generation wrote.
C10_GeneratedPlan ==
    /\ \A g \in GenIds :
          (gen[g].pc = "done" /\ gen[g].outcome = "created") =>
              /\ gen[g].plan.inspectionId = gen[g].inspectionId
              /\ gen[g].plan.totalEstimatedCost =
                     CostSum(gen[g].findings, nextFindingId)
              /\ gen[g].plan.priority = ExpectedPriority(gen[g].findings)
              /\ \E p \in plans : p.id = gen[g].plan.id
    /\ \A p \in plans :
          \E g \in GenIds :
              gen[g].pc \in {"notify", "done"} /\ gen[g].plan = p

\* C10 witness: the only finding of inspection 1 is a BLADE_DAMAGE "Crack"
\* finding stored with severity 2 and cost 5; the REST generation and the
\* GraphQL one have both written a MEDIUM plan with total 5.
C10_Witness ==
    /\ \E f \in findings :
          /\ f.inspectionId = 1
          /\ f.category = "BLADE_DAMAGE"
          /\ f.severity = 2
          /\ f.estimatedCost = 5
          /\ ContainsCrackAnyCase(f.notes)
          /\ \A e \in GenerateEndpoints :
                \E g \in GenIds :
                    /\ gen[g].pc = "done"
                    /\ gen[g].ep = e
                    /\ gen[g].findings = {f}
                    /\ gen[g].plan.priority = "MEDIUM"
                    /\ gen[g].plan.totalEstimatedCost = 5
    /\ \E p \in plans : p.inspectionId = 1 /\ p.priority = "MEDIUM"

\* C11: a generation for an existing inspection that has no findings is
\* answered with the plan, not with an error, and the plan stored for the
\* inspection has totalEstimatedCost 0, priority LOW and an empty snapshot.
C11_NoFindingsGivesLowPlan ==
    \A g \in GenIds :
        (gen[g].pc = "done" /\ InspectionExists(gen[g].inspectionId)
            /\ gen[g].findings = {}) =>
            /\ gen[g].outcome = "created"
            /\ gen[g].plan.totalEstimatedCost = 0
            /\ gen[g].plan.priority = "LOW"
            /\ gen[g].plan.snapshotJson = {}
            /\ \E p \in plans :
                  /\ p.id = gen[g].plan.id
                  /\ p.inspectionId = gen[g].inspectionId
                  /\ p.totalEstimatedCost = 0
                  /\ p.priority = "LOW"
                  /\ p.snapshotJson = {}

\* C11 witness: inspection 2 has findings and inspection 1 has none; a
\* generation for inspection 1 has been answered with a plan.
C11_Witness ==
    /\ \E f \in findings : f.inspectionId = 2
    /\ \E g \in GenIds :
          /\ gen[g].pc = "done"
          /\ gen[g].inspectionId = 1
          /\ gen[g].findings = {}
          /\ gen[g].outcome = "created"
          /\ gen[g].plan \in plans

----------------------------------------------------------------------------
(* Generations one after the other, with findings created between them *)

\* No finding is written while a generation is in flight.
BetweenGenerations == InFlight # {} => findings' = findings

NextRegen ==
    /\ /\ \/ PostFindings
          \/ \E g \in GenIds :
                \/ PostRepairPlan(g)
                \/ generateRepairPlan(g)
       /\ OneAtATime
       /\ BetweenGenerations
    /\ UNCHANGED auth

SpecRegen == InitFindings /\ [][NextRegen]_vars

\* The plan rows of inspection i in the table ps.
PlansOf(ps, i) == {p \in ps : p.inspectionId = i}

\* C13: with generations called one after the other, an inspection never
\* has more than one RepairPlan row; the write of a later generation keeps
\* the id and the creation time of the row and replaces its priority, total
\* cost and snapshot with the values of the findings the inspection has at
\* that call.
C13_SequentialGenerateReplacesInPlace ==
    [][\A g \in GenIds :
           (gen[g].pc = "write" /\ gen'[g].pc = "notify") =>
               LET i == gen[g].inspectionId
                   present == {f \in findings : f.inspectionId = i}
               IN  /\ Cardinality(PlansOf(plans', i)) = 1
                   /\ \A p \in PlansOf(plans', i) :
                         /\ p.totalEstimatedCost =
                                CostSum(present, nextFindingId)
                         /\ p.priority = ExpectedPriority(present)
                         /\ {a.id : a \in p.snapshotJson} =
                                {f.id : f \in present}
                         /\ \A q \in PlansOf(plans, i) :
                               p.id = q.id /\ p.createdAt = q.createdAt]_vars

\* C13 witness: the first generation found no findings and stored a LOW
\* plan; a finding of severity 5 and cost 5 was created; the second
\* generation has replaced the content of the same row.
C13_Witness ==
    /\ \A g \in GenIds : gen[g].pc = "done" /\ gen[g].outcome = "created"
    /\ gen[1].findings = {}
    /\ gen[1].plan.priority = "LOW"
    /\ \E f \in gen[2].findings : f.severity = 5 /\ f.estimatedCost = 5
    /\ plans = {gen[2].plan}
    /\ gen[2].plan.id = gen[1].plan.id
    /\ gen[2].plan.createdAt = gen[1].plan.createdAt
    /\ gen[2].plan.updatedAt > gen[1].plan.updatedAt
    /\ gen[2].plan.priority = "HIGH"
    /\ gen[2].plan.totalEstimatedCost = 5

----------------------------------------------------------------------------
(* Generations that overlap in time, over findings that do not change *)

\* Inspection 1 has a BLADE_DAMAGE "Crack" finding stored with severity 2
\* and an EROSION finding with severity 3; inspection 2 has no findings.
SampleFindings ==
    {[id |-> 1, inspectionId |-> 1, category |-> "BLADE_DAMAGE",
      severity |-> 2, estimatedCost |-> 5,
      notes |-> <<"C", "r", "a", "c", "k">>],
     [id |-> 2, inspectionId |-> 1, category |-> "EROSION",
      severity |-> 3, estimatedCost |-> 5, notes |-> Null]}

InitRace ==
    /\ tz = 0
    /\ inspections = StoredInspections
    /\ nextInspId = MaxDay + 1
    /\ req = [r \in ReqIds |-> IdleReq]
    /\ rule = NoRule
    /\ findings = SampleFindings
    /\ nextFindingId = 3
    /\ last = NoResponse
    /\ plans = {}
    /\ nextPlanId = 1
    /\ clock = 1
    /\ gen = [g \in GenIds |-> IdleGen]
    /\ sseClients = {}
    /\ conns = [o \in ObsIds |-> NoConn]
    /\ ioServer = "up"
    /\ sent = <<>>
    /\ turbines = StoredTurbines
    /\ client = NoClient
    /\ stalled = {}
    /\ auth = NoAuth

NextRace ==
    /\ \E g \in GenIds :
           \/ PostRepairPlan(g)
           \/ generateRepairPlan(g)
    /\ UNCHANGED auth

SpecRace == InitRace /\ [][NextRace]_vars

\* C14: two generations for the same inspection, overlapping or not, never
\* leave two RepairPlan rows for it, and with unchanged findings both are
\* answered with a plan of the same priority and total cost, which is the
\* content of the stored plan.
C14_RacingGenerationsBothSucceed ==
    /\ \A i \in 1..MaxDay : Cardinality(PlansOf(plans, i)) <= 1
    /\ \A g, h \in GenIds :
          (g # h /\ gen[g].pc = "done" /\ gen[h].pc = "done"
              /\ InspectionExists(gen[g].inspectionId)
              /\ gen[g].inspectionId = gen[h].inspectionId) =>
              /\ gen[g].outcome = "created"
              /\ gen[h].outcome = "created"
              /\ gen[g].plan.priority = gen[h].plan.priority
              /\ gen[g].plan.totalEstimatedCost =
                     gen[h].plan.totalEstimatedCost
              /\ \A p \in PlansOf(plans, gen[g].inspectionId) :
                    /\ p.priority = gen[g].plan.priority
                    /\ p.totalEstimatedCost = gen[g].plan.totalEstimatedCost

----------------------------------------------------------------------------
(* Generations with observers connecting and closing, a socket server that *)
(* may start to fail, and plans being deleted                              *)

NextNotify ==
    /\ \/ \E o \in ObsIds :
             \/ GetSseRepairplans(o)
             \/ GetApiEvents(o)
             \/ ReqClose(o)
       \/ EmitBreaks
       \/ DeleteRepairPlan
       \/ \E g \in GenIds :
             \/ PostRepairPlan(g)
             \/ generateRepairPlan(g)
    /\ UNCHANGED auth

SpecNotify == InitRace /\ [][NextNotify]_vars

\* The record of the call of notifyPlan that a step made.
Broadcast == sent'[Len(sent')]

\* The step is a call of notifyPlan.
Broadcasts == sent' # sent

\* The plan a notification announces in its payload.
Announced(b) == b.emit.payload.plan

\* C12: a generation for an inspection id that does not exist ends in
\* NotFound in its first step; that step writes no RepairPlan, changes no
\* stored record and no observer set, and the generation never notifies.
C12_GenerateUnknownInspection ==
    [][\A g \in GenIds :
           /\ (gen[g].pc = "idle" /\ gen'[g].pc # "idle"
                  /\ ~InspectionExists(gen'[g].inspectionId)) =>
                  /\ gen'[g].pc = "done"
                  /\ gen'[g].outcome = "notFound"
                  /\ plans' = plans
                  /\ findings' = findings
                  /\ inspections' = inspections
                  /\ sent' = sent
                  /\ sseClients' = sseClients
           /\ gen[g].outcome = "notFound" =>
                  /\ gen'[g] = gen[g]
                  /\ Broadcasts => Broadcast.by # g]_vars

\* C12 witness: a REST and a GraphQL generation for the missing inspection
\* 3 have ended in NotFound while an observer is connected; nothing was
\* sent and no plan is stored.
C12_Witness ==
    /\ \A e \in GenerateEndpoints :
          \E g \in GenIds :
              /\ gen[g].pc = "done"
              /\ gen[g].ep = e
              /\ gen[g].inspectionId = MaxDay + 1
              /\ gen[g].outcome = "notFound"
    /\ sseClients # {}
    /\ sent = <<>>
    /\ plans = {}

\* C16 as stated: at the moment a notification is written, a RepairPlan
\* with the announced id, inspectionId, priority and total cost exists in
\* the store.
C16_AnnouncedPlanIsStored ==
    [][Broadcasts =>
           \E p \in plans :
               /\ p.id = Announced(Broadcast).id
               /\ p.inspectionId = Announced(Broadcast).inspectionId
               /\ p.priority = Announced(Broadcast).priority
               /\ p.totalEstimatedCost =
                      Announced(Broadcast).totalEstimatedCost]_vars

\* C16 amended: a notification is sent only by a generation whose upsert
\* has committed, in a later step than the commit, and it announces the id,
\* inspectionId, priority and total cost of the row that upsert wrote; a
\* generation whose upsert failed sends nothing.
C16_AnnouncedPlanWasCommitted ==
    [][\A g \in GenIds :
           /\ (gen[g].pc = "write" /\ gen'[g].pc = "notify") =>
                  /\ gen'[g].plan \in plans'
                  /\ sent' = sent
           /\ (gen[g].pc = "write" /\ gen'[g].pc = "done") =>
                  /\ plans' = plans
                  /\ sent' = sent
           /\ (Broadcasts /\ Broadcast.by = g) =>
                  /\ gen[g].pc = "notify"
                  /\ Announced(Broadcast).id = gen[g].plan.id
                  /\ Announced(Broadcast).inspectionId =
                         gen[g].plan.inspectionId
                  /\ Announced(Broadcast).priority = gen[g].plan.priority
                  /\ Announced(Broadcast).totalEstimatedCost =
                         gen[g].plan.totalEstimatedCost]_vars

\* C16 witness: a generation committed a plan, the plan was deleted, and
\* the generation's notification was then written to a connected observer;
\* the other generation failed in its upsert and sent nothing.
C16_Witness ==
    /\ Len(sent) = 1
    /\ sent[1].written # {}
    /\ plans = {}
    /\ gen[sent[1].by].pc = "done"
    /\ \E g \in GenIds :
          /\ g # sent[1].by
          /\ gen[g].pc = "done"
          /\ gen[g].outcome \in {"P2002", "P2025"}

\* C17: once the upsert of a generation has committed and its broadcast
\* has run, the caller is answered with the plan, whatever failed in the
\* broadcast.
C17_BroadcastFailureIsNotAnError ==
    \A k \in 1..Len(sent) :
        gen[sent[k].by].pc = "done" => gen[sent[k].by].outcome = "created"

\* C18: in every broadcast, each handle of the membership set whose write
\* did not fail was written to, the emit on the socket server was made and
\* returned unless the server itself fails, every handle whose write failed
\* is out of the membership set, and no later broadcast has it as a member
\* or writes to it.
C18_FailedWriteIsIsolated ==
    \A k \in 1..Len(sent) :
        /\ sent[k].written = sent[k].members \ sent[k].failed
        /\ sent[k].emit.returned \/ ioServer = "failing"
        /\ sent[k].failed \cap sseClients = {}
        /\ \A l \in (k + 1)..Len(sent) :
              /\ sent[l].members \cap sent[k].failed = {}
              /\ sent[l].written \cap sent[k].failed = {}

\* C18 witness: a broadcast to two observers in which the write to one
\* failed: the other was written to and the emit returned; a later
\* broadcast went to the remaining observer alone.
C18_Witness ==
    /\ Len(sent) = 2
    /\ Cardinality(sent[1].members) = 2
    /\ Cardinality(sent[1].failed) = 1
    /\ Cardinality(sent[1].written) = 1
    /\ sent[1].emit.returned
    /\ sent[2].members = sent[1].written
    /\ sent[2].written = sent[1].written

\* The handles of connections that are open.
OpenHandles == {o \in ObsIds : conns[o].state = "open"}

\* C19: a handle is in the membership set only while its connection is
\* open: when every connection has closed the set is empty, and a
\* broadcast writes to handles of open connections only.
C19_MembersAreOpenConnections ==
    [][/\ sseClients \subseteq OpenHandles
       /\ sseClients' \subseteq OpenHandles'
       /\ Broadcasts => Broadcast.written \subseteq OpenHandles]_vars

\* C19 witness: a connection of each event-stream endpoint was opened and
\* received a broadcast; both have closed and the set is empty.
C19_Witness ==
    /\ \A e \in SseEndpoints :
          \E o \in ObsIds :
              /\ conns[o].endpoint = e
              /\ conns[o].state = "closed"
              /\ \E k \in 1..Len(sent) : o \in sent[k].written
    /\ sseClients = {}

----------------------------------------------------------------------------
(* Observers that stay connected while generations run one at a time.  The *)
(* steps of a request in flight are taken; arrivals and closes are the     *)
(* environment's and need never happen.                                    *)

NextHeartbeat ==
    /\ \/ \E o \in ObsIds :
             \/ GetSseRepairplans(o)
             \/ GetApiEvents(o)
             \/ ReqClose(o)
       \/ /\ \E g \in GenIds :
                \/ PostRepairPlan(g)
                \/ generateRepairPlan(g)
          /\ OneAtATime
    /\ UNCHANGED auth

\* A step of a generation that has been read from the socket already.
HandlerStep ==
    \E g \in GenIds :
        /\ gen[g].pc \in {"upsert", "write", "notify"}
        /\ (PostRepairPlan(g) \/ generateRepairPlan(g))
        /\ UNCHANGED auth

SpecHeartbeat ==
    InitRace /\ [][NextHeartbeat]_vars /\ WF_vars(HandlerStep)

\* A ping frame is written to handle o.
PingWritten(o) == conns'[o].pings > conns[o].pings

\* C21: an event-stream observer that stays connected is sent ping events
\* again and again, not only the one at connect, and no ping is ever
\* emitted on the socket channel.
C21_HeartbeatsKeepComing ==
    /\ \A o \in ObsIds :
          \/ []<>(conns[o].state # "open")
          \/ []<><<PingWritten(o)>>_vars
    /\ [](\A k \in 1..Len(sent) : sent[k].emit.event # "ping")

----------------------------------------------------------------------------
(* Deletes of inspections and turbines among finding creates and           *)
(* generations in flight                                                   *)

\* findings route, POST /, for the bodies of EROSION findings without
\* notes.
PostPlainFindings ==
    \E inspectionId \in 1..nextInspId, severity \in FindingSeverities :
        LET body == [category |-> "EROSION", severity |-> severity,
                     estimatedCost |-> 5, notes |-> Null]
        IN  RestCreateFinding("PostFindings", inspectionId, body,
                PostFindingsRule(body.category, body.severity, body.notes))

NextCascade ==
    /\ \/ PostPlainFindings
       \/ DeleteInspection
       \/ deleteInspection
       \/ DeleteTurbine
       \/ deleteTurbine
       \/ \E g \in GenIds :
             \/ PostRepairPlan(g)
             \/ generateRepairPlan(g)
    /\ UNCHANGED auth

SpecCascade == InitRace /\ [][NextCascade]_vars

\* C22: every Finding and every RepairPlan refers to an Inspection that
\* exists, and every Inspection to a Turbine that exists, whatever deletes
\* of inspections and turbines run among the finding creates and the
\* generations for the same inspection.
C22_NoOrphans ==
    /\ \A f \in findings : InspectionExists(f.inspectionId)
    /\ \A p \in plans : InspectionExists(p.inspectionId)
    /\ \A i \in inspections : \E t \in turbines.rows : t.id = i.turbineId

\* C22 witness: a turbine was deleted while a generation for one of its
\* inspections was between its read and its write; the inspection went
\* with the turbine, the generation's insert was refused, and a finding
\* and a plan of another inspection are still stored.
C22_Witness ==
    /\ \E g \in GenIds :
          /\ gen[g].pc = "done"
          /\ gen[g].outcome = "P2003"
          /\ gen[g].findings # {}
          /\ ~InspectionExists(gen[g].inspectionId)
    /\ Cardinality(turbines.rows) < MaxTurbines
    /\ findings # {}
    /\ plans # {}

----------------------------------------------------------------------------
(* One browser client with the event-stream endpoint and REST generations  *)
(* called one after the other                                              *)

NextClient ==
    /\ \/ PageMounts
       \/ PageUnmounts
       \/ SocketConnect
       \/ SocketConnectError
       \/ SocketDisconnect
       \/ EventSourceError
       \/ SseMessage
       \/ SocketMessage
       \/ \E o \in ObsIds :
             \/ EventSourceOpens(o)
             \/ GetSseRepairplans(o)
             \/ ReqClose(o)
       \/ /\ \E g \in GenIds : PostRepairPlan(g)
          /\ OneAtATime
    /\ UNCHANGED auth

SpecClient == InitRace /\ [][NextClient]_vars

\* The step is the socket's first connect_error.
FirstConnectError ==
    client.socket = "connecting" /\ client'.socket = "waiting"

\* The step is the client's stream taking broadcast k, whose frame was
\* written to the stream.
StreamTakes(k) ==
    /\ client.sseNext = k
    /\ client'.sseNext = k + 1
    /\ client.handle \in sent[k].written

\* C23: when the socket fails to connect the client opens the event
\* stream; every plan event written to that stream from then on is handed
\* to onPlanCreated, once, as the object the broadcaster sent; and a
\* broadcast writes to every registered handle and leaves the client alone.
C23_ClientFallsBackToStream ==
    [][/\ FirstConnectError => client'.sse = "open"
       /\ \A k \in 1..Len(sent) :
             StreamTakes(k) =>
                 client'.calls =
                     Append(client.calls,
                            [k |-> k, via |-> "sse",
                             data |-> sent[k].emit.payload,
                             mounted |-> TRUE])
       /\ Broadcasts =>
             /\ Broadcast.written \cup Broadcast.failed = sseClients
             /\ client' = client]_vars

\* C23 witness: the socket never connected, the client's stream is handle
\* 1, and the handler was called for the first broadcast through the
\* stream.
C23_Witness ==
    /\ client.socket = "waiting"
    /\ client.sse = "open"
    /\ client.handle = 1
    /\ client.calls # <<>>
    /\ \A i \in 1..Len(client.calls) :
          client.calls[i].via = "sse" /\ client.calls[i].k = 1

\* C29: no broadcast reaches onPlanCreated twice, the client is never
\* subscribed on the socket and on the stream at once, and the handler is
\* not called for a page that has called disconnect().
C29_HandlerCalledOncePerBroadcast ==
    /\ \A i, j \in 1..Len(client.calls) :
          i # j => client.calls[i].k # client.calls[j].k
    /\ ~(client.socket = "connected" /\ client.sse = "open")
    /\ \A i \in 1..Len(client.calls) : client.calls[i].mounted

----------------------------------------------------------------------------
(* Requests of every role to every route that writes *)

SpecRoles == InitRace /\ [][Requests]_vars

\* The routes that delete.
DeleteRoutes ==
    {"DeleteTurbine", "deleteTurbine", "DeleteInspection",
     "deleteInspection", "DeleteFinding", "deleteFinding",
     "DeleteRepairPlan"}

\* C24: a request with the VIEWER role is answered with a permission
\* error and changes no turbine, inspection, finding or repair plan, starts
\* no handler and sends nothing; a request that is admitted to a deleting
\* route is an ADMIN's, and one admitted to any other writing route is an
\* ADMIN's or an ENGINEER's.
C24_ViewerChangesNothing ==
    [][auth'.n # auth.n =>
          /\ auth'.role = "VIEWER" =>
                /\ auth'.status = "forbidden"
                /\ UNCHANGED <<turbines, inspections, findings, plans, sent,
                               sseClients, gen, req>>
          /\ auth'.status = "next" =>
                auth'.role \in IF auth'.route \in DeleteRoutes
                               THEN {"ADMIN"}
                               ELSE {"ADMIN", "ENGINEER"}]_vars

\* C24 witness: after an ENGINEER's generation stored a plan, a VIEWER's
\* request to generate was refused and the plan, the findings and the
\* record of what was sent are as the ENGINEER's request left them.
C24_Witness ==
    /\ auth.role = "VIEWER"
    /\ auth.route = "PostRepairPlan"
    /\ auth.status = "forbidden"
    /\ Len(sent) = 1
    /\ Cardinality(plans) = 1
    /\ \A g \in GenIds : gen[g].pc \in {"idle", "done"}

----------------------------------------------------------------------------
(* The rule applied to what the rule has adjusted *)

\* The findings fs as a create through POST /api/findings stores them.
StoredAsCreated(fs) ==
    {[f EXCEPT !.severity = PostFindingsRule(f.category, f.severity,
                                             f.notes)[1]] : f \in fs}

\* The map of generation g's endpoint over the findings fs.
RuleOfEndpoint(g, fs) ==
    IF gen[g].ep = "restGenerate"
    THEN {[f EXCEPT !.severity = GenerateRule(f.category, f.severity,
                                              f.notes)] : f \in fs}
    ELSE {[f EXCEPT !.severity = applySeverityRule(f.category, f.severity,
                                                   f.notes)] : f \in fs}

\* C25: the rule applied to a severity it has adjusted returns that
\* severity and reports no adjustment, and the plan a generation makes
\* from findings stored with raw severities has the priority, the total
\* cost and the snapshot of the plan made from the same findings stored
\* with adjusted severities.
C25_RuleIsIdempotent ==
    \A g \in GenIds :
        gen[g].plan # NoPlan =>
            LET stored == StoredAsCreated(gen[g].findings)
                again == RuleOfEndpoint(g, stored)
            IN  /\ \A f \in stored :
                      PostFindingsRule(f.category, f.severity, f.notes) =
                          <<f.severity, FALSE>>
                /\ again = stored
                /\ gen[g].plan.snapshotJson = again
                /\ gen[g].plan.totalEstimatedCost = reduceCost(again)
                /\ gen[g].plan.priority = priorityOf(maxSeverityOf(again))

\* C25 witness: a generation has made a MEDIUM plan from a "Crack"
\* BLADE_DAMAGE finding stored with severity 2, which a create would have
\* stored with severity 4.
C25_Witness ==
    \E g \in GenIds :
        /\ gen[g].pc = "done"
        /\ gen[g].outcome = "created"
        /\ gen[g].plan.priority = "MEDIUM"
        /\ \E f \in gen[g].findings :
              /\ f.category = "BLADE_DAMAGE"
              /\ f.notes # Null
              /\ f.severity = 2
        /\ StoredAsCreated(gen[g].findings) # gen[g].findings

----------------------------------------------------------------------------
(* The loop of a broadcast over a set it deletes from *)

\* C26: a broadcast writes to every handle that is in the set when it
\* starts and whose write returns exactly once, in the order the handles
\* were added, writes to no other handle, and leaves in the set exactly
\* the handles whose write returned; connects and closes between the
\* broadcasts do not change that.
C26_LoopVisitsEachMemberOnce ==
    [][Broadcasts =>
          LET b == Broadcast
              good == sseClients \ b.failed
          IN  /\ b.members = sseClients
              /\ sseClients' = good
              /\ \A o \in good :
                    Cardinality({i \in 1..Len(b.writes) : b.writes[i] = o})
                        = 1
              /\ \A i \in 1..Len(b.writes) : b.writes[i] \in good
              /\ \A i, j \in 1..Len(b.writes) :
                    i < j => b.writes[i] < b.writes[j]]_vars

\* C26 witness: both handles were in the set at a broadcast; the write to
\* the first threw and it was deleted inside the loop, the second was
\* written once; later the second closed and was not written again.
C26_Witness ==
    /\ Len(sent) = 2
    /\ sent[1].members = {1, 2}
    /\ sent[1].failed = {1}
    /\ sent[1].writes = <<2>>
    /\ sent[2].members = {}
    /\ sseClients = {}

----------------------------------------------------------------------------
(* Broadcasts to observers that have stopped reading.  Generations run one *)
(* at a time.                                                              *)

NextStall ==
    /\ \/ \E o \in ObsIds :
             \/ GetSseRepairplans(o)
             \/ GetApiEvents(o)
             \/ ReqClose(o)
             \/ ObsStalls(o)
       \/ /\ \E g \in GenIds :
                \/ PostRepairPlan(g)
                \/ generateRepairPlan(g)
          /\ OneAtATime
    /\ UNCHANGED auth

SpecStall == InitRace /\ [][NextStall]_vars

\* C27: a broadcast treats an observer whose write does not get through as
\* a failed write and removes it: no call of notifyPlan returns with a
\* frame buffered for an observer that is not reading and the observer
\* still in the set, and the other observers are written.
C27_StalledObserverIsDropped ==
    \A k \in 1..Len(sent) :
        /\ sent[k].buffered = {}
        /\ sent[k].written = sent[k].members \ sent[k].failed

----------------------------------------------------------------------------
(* The broadcasts among all the writing routes *)

\* The calls of notifyPlan that generation g made.
BroadcastsOf(g) == {k \in 1..Len(sent) : sent[k].by = g}

\* The upsert of generation g has returned its row.
Committed(g) == gen[g].plan # NoPlan

\* C28: a REST or GraphQL generation whose upsert committed, creating or
\* replacing, and that has ended has made exactly one call of notifyPlan,
\* whose frame and payload carry the id of the plan the upsert returned;
\* a generation that has not committed has made none, and no call comes
\* from anything else: manual plan create, update and delete and the
\* turbine, inspection and finding routes make none.
C28_OneBroadcastPerCommittedGenerate ==
    /\ \A g \in GenIds :
          IF gen[g].pc = "done" /\ Committed(g)
          THEN \E k \in 1..Len(sent) :
                  /\ BroadcastsOf(g) = {k}
                  /\ Announced(sent[k]).id = gen[g].plan.id
                  /\ JSONparse(sent[k].frame.data).plan.id = gen[g].plan.id
                  /\ sent[k].frame.event = "repairplan:created"
          ELSE BroadcastsOf(g) = {}
    /\ Len(sent) =
           Cardinality({g \in GenIds : gen[g].pc = "done" /\ Committed(g)})

\* C28 witness: a plan was created by hand, a GraphQL generation replaced
\* it and announced it once.
C28_Witness ==
    /\ auth.n = 2
    /\ Len(sent) = 1
    /\ \E g \in GenIds :
          /\ gen[g].pc = "done"
          /\ gen[g].ep = "gqlGenerate"
          /\ gen[g].existing # NoId
          /\ gen[g].plan.id = gen[g].existing
          /\ Announced(sent[1]).id = gen[g].existing

----------------------------------------------------------------------------
(* One plan per inspection under every route that writes plans *)

\* The step is an admitted POST /inspections/:inspectionId/repair-plan.
ManualCreate ==
    /\ auth'.n = auth.n + 1
    /\ auth'.route = "PostInspectionRepairPlan"
    /\ auth'.status = "next"

\* C30: under generation, manual create, update and delete of plans no
\* inspection ever has two RepairPlan rows; a manual create answers
\* created only for an inspection that had no plan, and otherwise answers
\* an error and leaves every plan row as it was.
C30_OnePlanPerInspection ==
    [][/\ \A i \in 1..nextInspId' : Cardinality(PlansOf(plans', i)) <= 1
       /\ ManualCreate =>
             IF last'.status = "created"
             THEN \E p \in plans' :
                     /\ p \notin plans
                     /\ plans' = plans \cup {p}
                     /\ PlansOf(plans, p.inspectionId) = {}
                     /\ last'.id = p.id
             ELSE /\ last'.status \in {"P2002", "P2003"}
                  /\ plans' = plans
                  /\ nextPlanId' = nextPlanId]_vars

\* C30 witness: a generation made the plan of an inspection, then a manual
\* create for that inspection was refused by the unique key; the plan is
\* the one the generation wrote.
C30_Witness ==
    /\ auth.n = 2
    /\ auth.route = "PostInspectionRepairPlan"
    /\ auth.status = "next"
    /\ last.op = "PostInspectionRepairPlan"
    /\ last.status = "P2002"
    /\ \E g \in GenIds :
          /\ gen[g].pc = "done"
          /\ gen[g].outcome = "created"
          /\ plans = {gen[g].plan}
====
